---------------------------- MODULE Spec2Model ----------------------------
(***************************************************************************)
(* Model of the vision extraction pipeline of clinical-guideline-extractor *)
(* (src/extraction/pipeline.py, src/schemas/validators.py,                 *)
(* src/extraction/llm/parsers.py, src/extraction/formatters.py and the     *)
(* run handler of src/app.py).                                             *)
(*                                                                         *)
(* Seven specifications share the module:                                  *)
(*   Spec     - one extraction run from the call of process_pages on:      *)
(*              load_prompt, batches of concurrent page tasks, and the     *)
(*              output assembly of app.main on what process_pages returns; *)
(*   SpecMain - the "Run extraction" handler of app.main up to that call:  *)
(*              API key check, output_dir clean-up, metadata bootstrap;    *)
(*   SpecClient - one VisionClient: construction and calls of extract;     *)
(*   SpecPage - one call of the synchronous part of _process_page, for     *)
(*              every reply array up to MaxItems over SampleElements;      *)
(*   SpecEnc  - fix_encoding applied repeatedly to every text up to        *)
(*              MaxTextLen over EncAlphabet;                               *)
(*   SpecFence - strip_json_fence applied to every text of up to MaxPieces *)
(*              pieces (fence marker, labels, newline, content);           *)
(*   SpecAnyBatch - Spec for a direct call of process_pages with any       *)
(*              integer, zero and negative included, as batch_size.        *)
(***************************************************************************)
EXTENDS Integers, Sequences, FiniteSets, TLC

VARIABLES
  \* ---- Spec: one extraction run ----------------------------------------
  pc,          \* position of the run: "start" (process_pages called),
               \*   "scheduling","returned","assembled","failed"
  info,        \* guideline fields main holds (app.py 188-193); id, name and
               \*   version are the arguments of process_pages
  prompt_file, \* the file at prompt_path
  pages,       \* page numbers returned by render_pdf_bytes (1..N)
  batch_size,  \* int(batch_size) handed to process_pages
  i,           \* loop variable of _process_pdf_async: 0-based batch start
  task,        \* page number -> state of its _process_page task
  reply,       \* page number -> reply received from client.extract
  returned,    \* page number -> PageOutput returned by its task
  outputs,     \* _process_pdf_async.outputs
  completed,   \* _process_pdf_async.completed
  progress,    \* calls of progress_callback, in order: <<completed, total>>
  notified,    \* calls of completion_callback, in order: page_num
  calls,       \* page number -> calls of client.extract made for the page
  files,       \* names of the files in output_dir
  flat,        \* all_items_flat of main
  nested,      \* full_output of main
  \* ---- SpecPage: one page through _process_page ------------------------
  pg_pc,       \* "called","returned","raised"
  pg_page,     \* page.page_number
  pg_reply,    \* reply of client.extract
  pg_valid,    \* local validated_items
  pg_errors,   \* local validation_errors
  pg_out,      \* the PageOutput returned
  \* ---- SpecEnc: fix_encoding ------------------------------------------
  text,        \* the input text (sequence of code points)
  once,        \* fix_encoding(text)
  twice,       \* fix_encoding(fix_encoding(text))
  enc_pc,      \* "input","fixed_once","fixed_twice"
  \* ---- SpecClient: one VisionClient -----------------------------------
  cl_pc,       \* "new","ready","rejected","requesting"
  cl_api_key,  \* constructor argument api_key
  cl_model,    \* constructor argument model
  cl_provider, \* constructor argument provider
  cl_log,      \* one entry per call of extract: the image was empty, what
               \*   the upstream call did, how extract ended
  cl_requests, \* upstream requests issued (messages.create / completions.create)
  \* ---- SpecMain: the run handler of main up to process_pages ----------
  m_pc,        \* "clicked","no_key","cleaned","bootstrap_awaiting",
               \*   "metadata_ok","failed"
  m_api_key,   \* the API key text input
  m_model_name,\* the model name text input
  m_prompt_file, \* the file of the metadata prompt
  m_files,     \* names of the files in output_dir
  m_reply,     \* reply of the metadata bootstrap's client.extract
  m_info,      \* guideline fields derived from auto_metadata
  m_requests,  \* upstream requests issued by the metadata client
  \* ---- SpecFence: strip_json_fence ------------------------------------
  fn_text,     \* the input text (sequence of characters)
  fn_out,      \* strip_json_fence(fn_text)
  fn_pc        \* "input","stripped"

runVars  == <<pc, info, prompt_file, pages, batch_size, i, task, reply, returned,
              outputs, completed, progress, notified, calls, files, flat, nested>>
pageVars == <<pg_pc, pg_page, pg_reply, pg_valid, pg_errors, pg_out>>
encVars  == <<text, once, twice, enc_pc>>
clientVars == <<cl_pc, cl_api_key, cl_model, cl_provider, cl_log, cl_requests>>
mainVars == <<m_pc, m_api_key, m_model_name, m_prompt_file, m_files, m_reply, m_info,
              m_requests>>
fenceVars == <<fn_text, fn_out, fn_pc>>
vars     == <<runVars, pageVars, encVars, clientVars, mainVars, fenceVars>>

-----------------------------------------------------------------------------
(* Bounds of the model.                                                    *)
MaxPages   == 3   \* pages of the document
MaxBatch   == 3   \* largest batch size tried
MaxItems   == 2   \* elements of a reply array in SpecPage
MaxTextLen == 3   \* code points of a text in SpecEnc
MaxCalls   == 2   \* calls of extract on one client in SpecClient
MaxPieces  == 5   \* pieces a text of SpecFence is concatenated from

-----------------------------------------------------------------------------
(* JSON values of a reply.  A value is a record: t its JSON/Python type,   *)
(* s its Python str() rendering, n its integer value (0 when not an int).  *)
(* Nested objects and lists are kept abstract: t = "obj"/"objlist" stand   *)
(* for a value that fits the nested model, "badobj" for one that does not. *)
VStr(s)  == [t |-> "str",  s |-> s,           n |-> 0]
VInt(n)  == [t |-> "int",  s |-> ToString(n), n |-> n]
VBool(s) == [t |-> "bool", s |-> s,           n |-> 0]
VNull    == [t |-> "null", s |-> "None",      n |-> 0]
VList(s) == [t |-> "list", s |-> s,           n |-> 0]
VObjList(s) == [t |-> "objlist", s |-> s,     n |-> 0]
VObj(s)  == [t |-> "obj",  s |-> s,           n |-> 0]
VBadObj(s) == [t |-> "badobj", s |-> s,       n |-> 0]
VDict(s) == [t |-> "dict", s |-> s,           n |-> 0]

NoFields == [k \in {} |-> VNull]

(* An element of a reply array: a JSON object (a dict of fields) or any    *)
(* other JSON value.                                                       *)
ObjectElem(fields) == [kind |-> "object", fields |-> fields]
ScalarElem(kind)   == [kind |-> kind,     fields |-> NoFields]

-----------------------------------------------------------------------------
(* The content schema registry: the declared fields of the seven pydantic  *)
(* models, in declaration order.  type "lit" is a Literal[...] of strings. *)
Req(name, type) ==
  [name |-> name, type |-> type, required |-> TRUE, lits |-> {}, lo |-> 0,
   hi |-> 0, default |-> VNull]
ReqLit(name, lits) ==
  [name |-> name, type |-> "lit", required |-> TRUE, lits |-> lits, lo |-> 0,
   hi |-> 0, default |-> VNull]
Opt(name, type, default) ==
  [name |-> name, type |-> type, required |-> FALSE, lits |-> {}, lo |-> 0,
   hi |-> 0, default |-> default]
OptBounded(name, lo, hi, default) ==
  [name |-> name, type |-> "int", required |-> FALSE, lits |-> {}, lo |-> lo,
   hi |-> hi, default |-> default]

EmptyStr  == VStr("")
EmptyList == VList("[]")
EmptyObjs == VObjList("[]")
EmptyDict == VDict("{}")

PriorityLo      == 1
PriorityHi      == 10
PriorityDefault == 5

GenericContent ==
  << ReqLit("content_type", {"generic"}),
     Req("topic", "str"),
     Req("section_type", "str"),
     Req("summary", "str"),
     Opt("key_points", "list", EmptyList),
     Opt("raw_text", "str", EmptyStr) >>

WarningSigns ==
  << ReqLit("content_type", {"warning_signs"}),
     Req("topic", "str"),
     Opt("condition_context", "str", EmptyStr),
     ReqLit("urgency", {"emergency", "urgent"}),
     OptBounded("priority_score", PriorityLo, PriorityHi, VInt(PriorityDefault)),
     Req("triggers", "list"),
     Opt("trigger_thresholds", "objlist", EmptyObjs),
     Req("immediate_steps", "list"),
     Opt("safety_checks", "list", EmptyList),
     Opt("referral_required", "bool", VBool("True")),
     Opt("referral_destination", "str", EmptyStr),
     Opt("timeframe", "str", EmptyStr),
     Opt("cross_references", "list", EmptyList) >>

ClinicalPathway ==
  << ReqLit("content_type", {"clinical_pathway"}),
     ReqLit("pathway_type", {"diagnostic", "treatment", "triage", "screening",
                             "monitoring", "mixed"}),
     Req("topic", "str"),
     Req("specific_scenario", "str"),
     Opt("range_metadata", "objlist", EmptyObjs),
     ReqLit("visual_structure", {"flowchart_path", "routine_care_table",
                                 "emergency_box", "general_info"}),
     ReqLit("urgency", {"emergency", "urgent", "routine"}),
     ReqLit("prescriber_level", {"nurse", "doctor", "specialist",
                                 "patient_self_care", "not_applicable"}),
     Req("clinical_criteria", "obj"),
     Req("protocol", "obj"),
     Opt("pathway_logic", "objlist", EmptyObjs),
     Opt("implementation_notes", "list", EmptyList),
     Opt("exit_points", "objlist", EmptyObjs),
     Opt("cross_references", "list", EmptyList),
     Req("disposition", "str") >>

ReferenceTable ==
  << ReqLit("content_type", {"reference_table"}),
     Req("topic", "str"),
     Req("table_name", "str"),
     Req("table_purpose", "str"),
     Opt("lookup_keys", "list", EmptyList),
     Opt("output_columns", "list", EmptyList),
     Opt("columns", "list", EmptyList),
     Opt("rows", "objlist", EmptyObjs),
     Opt("units", "dict", EmptyDict),
     Opt("notes", "list", EmptyList),
     Opt("cross_references", "list", EmptyList),
     Opt("source_reference", "str", EmptyStr) >>

DrugMonograph ==
  << ReqLit("content_type", {"drug_monograph"}),
     Req("topic", "str"),
     Req("drug_name", "str"),
     Opt("brand_names", "list", EmptyList),
     Opt("drug_class", "str", EmptyStr),
     Opt("indications", "list", EmptyList),
     Opt("contraindications", "list", EmptyList),
     Opt("dosing", "objlist", EmptyObjs),
     Opt("adverse_effects", "list", EmptyList),
     Opt("drug_interactions", "list", EmptyList),
     Opt("monitoring", "list", EmptyList),
     Opt("pregnancy_category", "str", EmptyStr),
     Opt("cross_references", "list", EmptyList),
     Opt("notes", "list", EmptyList) >>

DiagnosticCriteria ==
  << ReqLit("content_type", {"diagnostic_criteria"}),
     Req("topic", "str"),
     Req("condition_name", "str"),
     Opt("definition_summary", "str", EmptyStr),
     Opt("inclusion_criteria", "list", EmptyList),
     Opt("exclusion_criteria", "list", EmptyList),
     Opt("clinical_features", "obj", VObj("ClinicalFeatures()")),
     Opt("differential_diagnoses", "list", EmptyList),
     Opt("diagnostic_tests", "list", EmptyList),
     Opt("severity_classification", "list", EmptyList),
     Opt("cross_references", "list", EmptyList) >>

PatientEducation ==
  << ReqLit("content_type", {"patient_education"}),
     Req("topic", "str"),
     ReqLit("target_audience", {"patient", "caregiver", "both"}),
     ReqLit("education_type", {"prevention", "self_care", "when_to_return",
                               "medication_instructions", "lifestyle",
                               "general_information"}),
     Opt("key_messages", "list", EmptyList),
     Opt("instructions", "list", EmptyList),
     Opt("red_flags", "objlist", EmptyObjs),
     Opt("when_to_seek_care", "list", EmptyList),
     Opt("things_to_avoid", "list", EmptyList),
     Opt("follow_up", "str", EmptyStr),
     Opt("cross_references", "list", EmptyList) >>

-----------------------------------------------------------------------------
(* pydantic's BaseModel.model_validate over a schema table: one violation  *)
(* per declared field that is missing though required, or present with a   *)
(* value outside its type, literal set or numeric bounds; keys that are    *)
(* not declared are ignored; declared fields that are absent take their    *)
(* default.                                                                *)
(* the type test without the ge / le bounds of the field                   *)
TypeOkIgnoresBounds(f, v) ==
  CASE f.type = "lit" -> v.t = "str" /\ v.s \in f.lits
    [] OTHER          -> v.t = f.type

TypeOk(f, v) ==
  CASE f.type = "lit" -> v.t = "str" /\ v.s \in f.lits
    [] f.type = "int" -> v.t = "int" /\ (f.lo < f.hi => (f.lo <= v.n /\ v.n <= f.hi))
    [] OTHER          -> v.t = f.type

(* the keys of a dict as its repr lists them (the values are left out)     *)
RECURSIVE ReprKeys(_)
ReprKeys(keys) ==
  IF keys = {} THEN ""
  ELSE LET k == CHOOSE x \in keys : TRUE IN
       "'" \o k \o "'" \o (IF keys = {k} THEN "" ELSE ", " \o ReprKeys(keys \ {k}))

(* a missing field is reported with the whole input dict as input_value    *)
FieldViolation(f, payload) ==
  IF f.name \notin DOMAIN payload
    THEN IF f.required
           THEN <<f.name \o ": Field required [type=missing, input_value={"
                    \o ReprKeys(DOMAIN payload) \o "}, input_type=dict]">>
           ELSE <<>>
    ELSE IF TypeOk(f, payload[f.name])
           THEN <<>>
           ELSE <<f.name \o ": Input should be a valid " \o f.type>>

RECURSIVE Violations(_, _, _)
Violations(schema, payload, k) ==
  IF k > Len(schema) THEN <<>>
  ELSE FieldViolation(schema[k], payload) \o Violations(schema, payload, k + 1)

FieldNames(schema) == {schema[k].name : k \in 1..Len(schema)}
FieldOf(schema, name) == CHOOSE k \in 1..Len(schema) : schema[k].name = name

(* The model instance built by a successful model_validate.                *)
Instance(model, schema, payload) ==
  [model  |-> model,
   fields |-> [name \in FieldNames(schema) |->
                 IF name \in DOMAIN payload THEN payload[name]
                 ELSE schema[FieldOf(schema, name)].default]]

RECURSIVE JoinWith(_, _)
JoinWith(strs, sep) ==
  IF strs = <<>> THEN ""
  ELSE IF Len(strs) = 1 THEN strs[1]
  ELSE strs[1] \o sep \o JoinWith(Tail(strs), sep)

(* str(exc) of pydantic's ValidationError (its wording is approximated).   *)
ValidationErrorText(model, violations) ==
  ToString(Len(violations)) \o " validation error for " \o model \o ": "
    \o JoinWith(violations, "; ")

(* model_validate: either the instance or the ValidationError raised.      *)
ModelValidate(model, schema, payload) ==
  LET violations == Violations(schema, payload, 1) IN
  IF violations = <<>>
    THEN [ok |-> TRUE,  instance |-> Instance(model, schema, payload), exc |-> ""]
    ELSE [ok |-> FALSE, instance |-> Instance(model, schema, NoFields),
          exc |-> ValidationErrorText(model, violations)]

ModelDump(instance) == instance.fields

-----------------------------------------------------------------------------
(* src/schemas/validators.py                                               *)
protected_fields == {"human_audit", "audit", "chunk_info"}

(* a sanitizer that hands the payload on as it is                          *)
sanitize_payload_KeepsAll(payload) == payload

sanitize_payload(payload) ==
  [k \in (DOMAIN payload) \ protected_fields |-> payload[k]]

KnownContentTypes ==
  {"clinical_pathway", "reference_table", "drug_monograph", "warning_signs",
   "diagnostic_criteria", "patient_education", "generic"}

(* sanitized.get("content_type", "unknown")                                *)
ContentTypeOf(sanitized) ==
  IF "content_type" \in DOMAIN sanitized THEN sanitized["content_type"]
  ELSE VStr("unknown")

IsStr(v, s) == v.t = "str" /\ v.s = s

UnknownTypeError(index, content_type) ==
  "Item " \o ToString(index) \o ": Unknown content_type '" \o content_type.s
    \o "'. Must be one of: clinical_pathway, reference_table, drug_monograph, "
    \o "warning_signs, diagnostic_criteria, patient_education, generic"

SchemaError(index, content_type, exc) ==
  "Item " \o ToString(index) \o " (type: " \o content_type.s \o "): " \o exc

(* the if/elif chain with the else branch falling back to GenericContent   *)
DispatchFallsBackToGeneric(content_type) ==
  IF IsStr(content_type, "clinical_pathway")
    THEN [model |-> "ClinicalPathway", schema |-> ClinicalPathway]
  ELSE IF IsStr(content_type, "reference_table")
    THEN [model |-> "ReferenceTable", schema |-> ReferenceTable]
  ELSE IF IsStr(content_type, "drug_monograph")
    THEN [model |-> "DrugMonograph", schema |-> DrugMonograph]
  ELSE IF IsStr(content_type, "warning_signs")
    THEN [model |-> "WarningSigns", schema |-> WarningSigns]
  ELSE IF IsStr(content_type, "diagnostic_criteria")
    THEN [model |-> "DiagnosticCriteria", schema |-> DiagnosticCriteria]
  ELSE IF IsStr(content_type, "patient_education")
    THEN [model |-> "PatientEducation", schema |-> PatientEducation]
  ELSE [model |-> "GenericContent", schema |-> GenericContent]

(* the if/elif chain with the else branch validating against a variant    *)
(* that takes any content_type                                             *)
DispatchUnknownToOpenVariant(content_type) ==
  IF content_type.t = "str" /\ content_type.s \in KnownContentTypes
    THEN DispatchFallsBackToGeneric(content_type)
    ELSE [model |-> "GenericContent",
          schema |-> << Opt("content_type", content_type.t, EmptyStr),
                        Req("topic", "str") >>]

(* The if/elif chain of validate_content: the model an element is          *)
(* validated against, or "none" for the else branch.                       *)
Dispatch(content_type) ==
  IF IsStr(content_type, "clinical_pathway")
    THEN [model |-> "ClinicalPathway", schema |-> ClinicalPathway]
  ELSE IF IsStr(content_type, "reference_table")
    THEN [model |-> "ReferenceTable", schema |-> ReferenceTable]
  ELSE IF IsStr(content_type, "drug_monograph")
    THEN [model |-> "DrugMonograph", schema |-> DrugMonograph]
  ELSE IF IsStr(content_type, "warning_signs")
    THEN [model |-> "WarningSigns", schema |-> WarningSigns]
  ELSE IF IsStr(content_type, "diagnostic_criteria")
    THEN [model |-> "DiagnosticCriteria", schema |-> DiagnosticCriteria]
  ELSE IF IsStr(content_type, "patient_education")
    THEN [model |-> "PatientEducation", schema |-> PatientEducation]
  ELSE IF IsStr(content_type, "generic")
    THEN [model |-> "GenericContent", schema |-> GenericContent]
  ELSE [model |-> "none", schema |-> <<>>]

(* One iteration of the for loop of validate_content on (index, item),     *)
(* given the lists so far.  raised: an exception other than                *)
(* ValidationError left the loop (item.items() on a value that is no dict).*)
ValidateItem(acc, index, item) ==
  IF item.kind # "object"
    THEN [acc EXCEPT !.raised = TRUE]
  ELSE
    LET sanitized    == sanitize_payload(item.fields)
        content_type == ContentTypeOf(sanitized)
        d            == Dispatch(content_type)
        v            == ModelValidate(d.model, d.schema, sanitized)
    IN  IF d.model = "none"
          THEN [acc EXCEPT !.errors = Append(@, UnknownTypeError(index, content_type))]
        ELSE IF v.ok
          THEN [acc EXCEPT !.valid = Append(@, v.instance)]
        ELSE [acc EXCEPT !.errors = Append(@, SchemaError(index, content_type, v.exc))]

RECURSIVE ValidateFrom(_, _, _)
ValidateFrom(acc, payloads, k) ==
  IF k > Len(payloads) \/ acc.raised THEN acc
  ELSE ValidateFrom(ValidateItem(acc, k - 1, payloads[k]), payloads, k + 1)

(* validate_content going through the payloads from the last to the first *)
validate_content_Backwards(payloads) ==
  ValidateFrom([valid |-> <<>>, errors |-> <<>>, raised |-> FALSE],
               [k \in 1..Len(payloads) |-> payloads[Len(payloads) + 1 - k]], 1)

(* validate_content(payloads): (valid, errors), or raised.                 *)
validate_content(payloads) ==
  ValidateFrom([valid |-> <<>>, errors |-> <<>>, raised |-> FALSE], payloads, 1)

-----------------------------------------------------------------------------
(* src/extraction/llm/parsers.py, parse_json_response.  A reply (raw_text) *)
(* is represented by what json.loads gives for it after fix_encoding and   *)
(* strip_json_fence: shape "not_json" (JSONDecodeError), "json_object" (a  *)
(* JSON value that is no list) or "array" with its elements.               *)
NotJson    == [shape |-> "not_json",    items |-> <<>>]
JsonObject == [shape |-> "json_object", items |-> <<>>]
Array(items) == [shape |-> "array", items |-> items]

parse_json_response(raw_text) ==
  IF raw_text.shape = "not_json"
    THEN [ok |-> FALSE, payload |-> <<>>, exc |-> "Model response is not valid JSON."]
  ELSE IF raw_text.shape # "array"
    THEN [ok |-> FALSE, payload |-> <<>>, exc |-> "Model response must be a JSON array."]
  ELSE [ok |-> TRUE, payload |-> raw_text.items, exc |-> ""]

-----------------------------------------------------------------------------
(* src/schemas/metadata_models.py                                          *)
HumanAuditVersion == 1

(* HumanAudit(created_by=...).model_dump(); created_at is the clock        *)
(* reading of the call, kept abstract.                                     *)
HumanAudit(created_by) ==
  [status |-> "draft", version |-> HumanAuditVersion, created_at |-> "utcnow",
   created_by |-> created_by, reviewed_by |-> "", approval_date |-> "",
   notes |-> ""]

ChunkInfo(chunk_id) == [chunk_id |-> chunk_id]

-----------------------------------------------------------------------------
(* src/extraction/pipeline.py, _process_page after the await of            *)
(* client.extract (lines 51-112).                                          *)

(* f"{n:03d}"                                                              *)
Pad3(n) ==
  IF n < 10 THEN "00" \o ToString(n)
  ELSE IF n < 100 THEN "0" \o ToString(n)
  ELSE ToString(n)

(* the chunk id without the page number                                    *)
ChunkIdWithoutPage(guideline_id, page_number, idx) ==
  guideline_id \o "_" \o ToString(idx)

(* f"{guideline_id}_p{page.page_number:03d}_{idx}"                         *)
ChunkId(guideline_id, page_number, idx) ==
  guideline_id \o "_p" \o Pad3(page_number) \o "_" \o ToString(idx)

RawPath(page_number)      == "page_" \o Pad3(page_number) \o "_raw.txt"
ErrorsPath(page_number)   == "page_" \o Pad3(page_number) \o "_errors.txt"
PageJsonPath(page_number) == "page_" \o Pad3(page_number) \o ".json"

(* lines 51-54: a reply that does not parse counts as an empty list        *)
ParsedItems(raw_text) ==
  LET p == parse_json_response(raw_text) IN
  IF p.ok THEN p.payload ELSE <<>>

(* lines 78-93: final_chunk of the idx-th validated item (idx from 1)      *)
FinalChunk(guideline_id, page_number, extracted_by, idx, item) ==
  [chunk_info  |-> ChunkInfo(ChunkId(guideline_id, page_number, idx)),
   content     |-> ModelDump(item),
   human_audit |-> HumanAudit(extracted_by)]

(* the loop stopping one item short                                        *)
SanitizedItemsWithoutLast(guideline_id, page_number, extracted_by, validated_items) ==
  [idx \in 1..(Len(validated_items) - 1) |->
     FinalChunk(guideline_id, page_number, extracted_by, idx, validated_items[idx])]

SanitizedItems(guideline_id, page_number, extracted_by, validated_items) ==
  [idx \in 1..Len(validated_items) |->
     FinalChunk(guideline_id, page_number, extracted_by, idx, validated_items[idx])]

PageOutput(page_number, raw_text, parsed_items, validation_errors) ==
  [page_number |-> page_number, raw_text |-> raw_text,
   parsed_items |-> parsed_items, validation_errors |-> validation_errors]

(* the rejected branch keeping the records that did validate               *)
RejectedOutputKeepsValid(page_number, raw_text, validated_items, validation_errors) ==
  PageOutput(page_number, raw_text,
             [idx \in 1..Len(validated_items) |-> ModelDump(validated_items[idx])],
             validation_errors)

(* lines 60-75: the branch taken when validation_errors is not empty       *)
(* (parsed_items=[]: the provisionally valid validated_items are dropped)   *)
RejectedOutput(page_number, raw_text, validated_items, validation_errors) ==
  PageOutput(page_number, raw_text, <<>>, validation_errors)

RejectedFiles(page_number) == {RawPath(page_number), ErrorsPath(page_number)}

(* lines 76-107: the branch taken when validation_errors is empty          *)
AcceptedOutput(guideline_id, page_number, extracted_by, raw_text, validated_items) ==
  PageOutput(page_number, raw_text,
             SanitizedItems(guideline_id, page_number, extracted_by, validated_items),
             <<>>)

AcceptedFiles(page_number) == {RawPath(page_number), PageJsonPath(page_number)}

(* lines 51-112 as one step: what the task does with a reply.  raised: the *)
(* task ends with an exception before anything is written or reported.     *)
ProcessReply(guideline_id, page_number, extracted_by, raw_text) ==
  LET v == validate_content(ParsedItems(raw_text)) IN
  IF v.raised
    THEN [raised |-> TRUE,
          output |-> PageOutput(page_number, raw_text, <<>>, <<>>),
          written |-> {}]
  ELSE IF v.errors # <<>>
    THEN [raised |-> FALSE,
          output |-> RejectedOutput(page_number, raw_text, v.valid, v.errors),
          written |-> RejectedFiles(page_number)]
  ELSE [raised |-> FALSE,
        output |-> AcceptedOutput(guideline_id, page_number, extracted_by,
                                  raw_text, v.valid),
        written |-> AcceptedFiles(page_number)]

-----------------------------------------------------------------------------
(* Inputs: the elements a reply array is drawn from.                       *)
GenericOk ==
  ObjectElem(("content_type" :> VStr("generic")) @@ ("topic" :> VStr("TB"))
             @@ ("section_type" :> VStr("background"))
             @@ ("summary" :> VStr("About TB")))

GenericWithAudit ==
  ObjectElem(("content_type" :> VStr("generic")) @@ ("topic" :> VStr("HIV"))
             @@ ("section_type" :> VStr("glossary"))
             @@ ("summary" :> VStr("Terms"))
             @@ ("human_audit" :> VObj("{'status': 'approved'}"))
             @@ ("chunk_info" :> VObj("{'chunk_id': 'forged'}"))
             @@ ("audit" :> VStr("approved")))

GenericNoSummary ==
  ObjectElem(("content_type" :> VStr("generic")) @@ ("topic" :> VStr("TB"))
             @@ ("section_type" :> VStr("background")))

WarningOk ==
  ObjectElem(("content_type" :> VStr("warning_signs")) @@ ("topic" :> VStr("Sepsis"))
             @@ ("urgency" :> VStr("emergency"))
             @@ ("priority_score" :> VInt(10))
             @@ ("triggers" :> VList("['fever']"))
             @@ ("immediate_steps" :> VList("['refer']")))

WarningScore11 ==
  ObjectElem(("content_type" :> VStr("warning_signs")) @@ ("topic" :> VStr("Sepsis"))
             @@ ("urgency" :> VStr("emergency"))
             @@ ("priority_score" :> VInt(11))
             @@ ("triggers" :> VList("['fever']"))
             @@ ("immediate_steps" :> VList("['refer']")))

(* urgency outside its Literal["emergency", "urgent"]                      *)
WarningUrgencySoon ==
  ObjectElem(("content_type" :> VStr("warning_signs")) @@ ("topic" :> VStr("Sepsis"))
             @@ ("urgency" :> VStr("soon"))
             @@ ("triggers" :> VList("['fever']"))
             @@ ("immediate_steps" :> VList("['refer']")))

(* trigger_thresholds holding an object that is no NumericTrigger          *)
WarningBadThreshold ==
  ObjectElem(("content_type" :> VStr("warning_signs")) @@ ("topic" :> VStr("Sepsis"))
             @@ ("urgency" :> VStr("urgent"))
             @@ ("triggers" :> VList("['fever']"))
             @@ ("trigger_thresholds" :> VBadObj("[{'parameter': 'Temp'}]"))
             @@ ("immediate_steps" :> VList("['refer']")))

ReferenceTableOk ==
  ObjectElem(("content_type" :> VStr("reference_table")) @@ ("topic" :> VStr("Dosing"))
             @@ ("table_name" :> VStr("Weight bands"))
             @@ ("table_purpose" :> VStr("Dose by weight")))

Unicorn ==
  ObjectElem(("content_type" :> VStr("unicorn")) @@ ("topic" :> VStr("TB")))

NoContentType ==
  ObjectElem(("topic" :> VStr("TB")) @@ ("summary" :> VStr("About TB")))

NullContentType ==
  ObjectElem(("content_type" :> VNull) @@ ("topic" :> VStr("TB")))

NumberElem == ScalarElem("number")

SampleElements ==
  {GenericOk, GenericWithAudit, GenericNoSummary, WarningOk, WarningScore11,
   WarningUrgencySoon, WarningBadThreshold, ReferenceTableOk, Unicorn,
   NoContentType, NullContentType, NumberElem}

SeqsUpTo(S, n) == UNION {[1..k -> S] : k \in 0..n}

(* Every reply SpecPage tries.                                             *)
PageReplies ==
  {NotJson, JsonObject} \cup {Array(items) : items \in SeqsUpTo(SampleElements, MaxItems)}

(* Page numbers SpecPage tries: one per width of the zero-padded field.    *)
SamplePageNumbers == {1, 12, 123, 1234}

SampleGuidelineId == "tb_guide"
SampleExtractedBy == "reviewer"

-----------------------------------------------------------------------------
(* SpecPage: _process_page from the reply of client.extract on.            *)
NoOutput == PageOutput(0, NotJson, <<>>, <<>>)

RunIdle ==
  /\ pc = "idle"
  /\ info = [guideline_id |-> "", guideline_name |-> "", guideline_version |-> "",
             country |-> "", jurisdiction |-> "", organization |-> ""]
  /\ pages = <<>> /\ batch_size = 0 /\ i = 0
  /\ task = <<>> /\ reply = <<>> /\ returned = <<>> /\ outputs = <<>>
  /\ completed = 0 /\ progress = <<>> /\ files = {} /\ flat = <<>>
  /\ nested = <<>>
  /\ prompt_file = [is_file |-> FALSE, content |-> <<>>]
  /\ notified = <<>> /\ calls = <<>>

PageIdle ==
  /\ pg_pc = "idle" /\ pg_page = 0 /\ pg_reply = NotJson
  /\ pg_valid = <<>> /\ pg_errors = <<>> /\ pg_out = NoOutput

EncIdle ==
  /\ text = <<>> /\ once = <<>> /\ twice = <<>> /\ enc_pc = "idle"

ClientIdle ==
  /\ cl_pc = "idle" /\ cl_api_key = "" /\ cl_model = "" /\ cl_provider = ""
  /\ cl_log = <<>> /\ cl_requests = 0

FenceIdle ==
  /\ fn_text = <<>> /\ fn_out = <<>> /\ fn_pc = "idle"

MainIdle ==
  /\ m_pc = "idle" /\ m_api_key = "" /\ m_model_name = ""
  /\ m_prompt_file = [is_file |-> FALSE, content |-> <<>>]
  /\ m_files = {} /\ m_reply = NotJson /\ m_requests = 0
  /\ m_info = [guideline_id |-> "", guideline_name |-> "", guideline_version |-> "",
               country |-> "", jurisdiction |-> "", organization |-> ""]

PageInit ==
  /\ pg_pc = "called"
  /\ pg_page \in SamplePageNumbers
  /\ pg_reply \in PageReplies
  /\ pg_valid = <<>> /\ pg_errors = <<>> /\ pg_out = NoOutput
  /\ RunIdle /\ EncIdle /\ ClientIdle /\ MainIdle /\ FenceIdle

(* lines 51-57: parse and validate; an exception of validate_content ends  *)
(* the call.                                                               *)
PageValidate ==
  /\ pg_pc = "called"
  /\ LET v == validate_content(ParsedItems(pg_reply)) IN
       /\ pg_pc' = IF v.raised THEN "raised" ELSE "validated"
       /\ pg_valid' = v.valid
       /\ pg_errors' = v.errors
  /\ UNCHANGED <<pg_page, pg_reply, pg_out, runVars, encVars,
               clientVars, mainVars, fenceVars>>

(* lines 60-75 and 109-112                                                 *)
PageReject ==
  /\ pg_pc = "validated"
  /\ pg_errors # <<>>
  /\ pg_out' = RejectedOutput(pg_page, pg_reply, pg_valid, pg_errors)
  /\ pg_pc' = "returned"
  /\ UNCHANGED <<pg_page, pg_reply, pg_valid, pg_errors, runVars, encVars,
               clientVars, mainVars, fenceVars>>

(* lines 76-112                                                            *)
PageAccept ==
  /\ pg_pc = "validated"
  /\ pg_errors = <<>>
  /\ pg_out' = AcceptedOutput(SampleGuidelineId, pg_page, SampleExtractedBy,
                              pg_reply, pg_valid)
  /\ pg_pc' = "returned"
  /\ UNCHANGED <<pg_page, pg_reply, pg_valid, pg_errors, runVars, encVars,
               clientVars, mainVars, fenceVars>>

PageNext == PageValidate \/ PageReject \/ PageAccept

SpecPage == PageInit /\ [][PageNext]_vars

-----------------------------------------------------------------------------
(* src/extraction/llm/parsers.py, ENCODING_FIXES and fix_encoding.  A text *)
(* is a sequence of code points.                                           *)
(* ENCODING_FIXES with the micro entry written original -> corrupted.       *)
ENCODING_FIXES_MicroSwapped ==
  << << <<226, 134, 146>>, <<8594>> >>,
     << <<226, 137, 165>>, <<8805>> >>,
     << <<226, 137, 164>>, <<8804>> >>,
     << <<194, 176>>,      <<176>>  >>,
     << <<181>>,           <<194, 181>> >>,
     << <<226, 128, 147>>, <<8211>> >>,
     << <<226, 128, 148>>, <<8212>> >>,
     << <<226, 128, 153>>, <<8217>> >>,
     << <<226, 128, 152>>, <<8216>> >>,
     << <<226, 128, 156>>, <<8220>> >>,
     << <<226, 128, 157>>, <<8221>> >>,
     << <<195, 169>>,      <<233>>  >>,
     << <<195, 168>>,      <<232>>  >>,
     << <<195, 188>>,      <<252>>  >>,
     << <<195, 182>>,      <<246>>  >>,
     << <<195, 164>>,      <<228>>  >>,
     << <<195, 177>>,      <<241>>  >>,
     << <<194, 185>>,      <<185>>  >>,
     << <<194, 178>>,      <<178>>  >>,
     << <<194, 179>>,      <<179>>  >> >>

(* ENCODING_FIXES with the micro entry giving the corrupted degree sign     *)
ENCODING_FIXES_MicroChained ==
  [ENCODING_FIXES_MicroSwapped EXCEPT ![5] = << <<194, 181>>, <<194, 176>> >>]

ENCODING_FIXES ==
  << << <<226, 134, 146>>, <<8594>> >>,   \* e2 86 92 -> right arrow
     << <<226, 137, 165>>, <<8805>> >>,   \* e2 89 a5 -> greater than or equal
     << <<226, 137, 164>>, <<8804>> >>,   \* e2 89 a4 -> less than or equal
     << <<194, 176>>,      <<176>>  >>,   \* c2 b0 -> degree symbol
     << <<194, 181>>,      <<181>>  >>,   \* c2 b5 -> micro symbol
     << <<226, 128, 147>>, <<8211>> >>,   \* e2 80 93 -> en dash
     << <<226, 128, 148>>, <<8212>> >>,   \* e2 80 94 -> em dash
     << <<226, 128, 153>>, <<8217>> >>,   \* e2 80 99 -> right single quote
     << <<226, 128, 152>>, <<8216>> >>,   \* e2 80 98 -> left single quote
     << <<226, 128, 156>>, <<8220>> >>,   \* e2 80 9c -> left double quote
     << <<226, 128, 157>>, <<8221>> >>,   \* e2 80 9d -> right double quote
     << <<195, 169>>,      <<233>>  >>,   \* c3 a9 -> e acute
     << <<195, 168>>,      <<232>>  >>,   \* c3 a8 -> e grave
     << <<195, 188>>,      <<252>>  >>,   \* c3 bc -> u umlaut
     << <<195, 182>>,      <<246>>  >>,   \* c3 b6 -> o umlaut
     << <<195, 164>>,      <<228>>  >>,   \* c3 a4 -> a umlaut
     << <<195, 177>>,      <<241>>  >>,   \* c3 b1 -> n tilde
     << <<194, 185>>,      <<185>>  >>,   \* c2 b9 -> superscript 1
     << <<194, 178>>,      <<178>>  >>,   \* c2 b2 -> superscript 2
     << <<194, 179>>,      <<179>>  >> >> \* c2 b3 -> superscript 3

StartsWith(s, prefix) ==
  /\ Len(prefix) <= Len(s)
  /\ SubSeq(s, 1, Len(prefix)) = prefix

(* str.replace(old, new): every non-overlapping occurrence of old, found   *)
(* left to right, is replaced; replaced text is not scanned again.         *)
RECURSIVE StrReplace(_, _, _)
StrReplace(s, old, new) ==
  IF Len(s) < Len(old) THEN s
  ELSE IF StartsWith(s, old)
    THEN new \o StrReplace(SubSeq(s, Len(old) + 1, Len(s)), old, new)
  ELSE <<s[1]>> \o StrReplace(Tail(s), old, new)

(* the for loop of fix_encoding from the k-th entry of fixes on            *)
RECURSIVE ApplyFixes(_, _, _)
ApplyFixes(result, fixes, k) ==
  IF k > Len(fixes) THEN result
  ELSE ApplyFixes(StrReplace(result, fixes[k][1], fixes[k][2]), fixes, k + 1)

fix_encoding(t) == ApplyFixes(t, ENCODING_FIXES, 1)

(* Code points SpecEnc builds texts from: the parts of a two-byte and of a *)
(* three-byte corruption, a second target (micro sign) and a letter.       *)
EncAlphabet == {194, 176, 181, 195, 169, 226, 128, 147, 65}

(* the entries of ENCODING_FIXES whose corrupted pattern is made of code    *)
(* points of EncAlphabet                                                   *)
EncEntries ==
  {k \in 1..Len(ENCODING_FIXES) :
     \A j \in 1..Len(ENCODING_FIXES[k][1]) : ENCODING_FIXES[k][1][j] \in EncAlphabet}

(* texts holding two corrupted patterns side by side                       *)
EncPairs == {ENCODING_FIXES[a][1] \o ENCODING_FIXES[b][1] : a, b \in EncEntries}

EncInit ==
  /\ text \in SeqsUpTo(EncAlphabet, MaxTextLen) \cup EncPairs
  /\ once = <<>> /\ twice = <<>> /\ enc_pc = "input"
  /\ RunIdle /\ PageIdle /\ ClientIdle /\ MainIdle /\ FenceIdle

FixOnce ==
  /\ enc_pc = "input"
  /\ once' = fix_encoding(text)
  /\ enc_pc' = "fixed_once"
  /\ UNCHANGED <<text, twice, runVars, pageVars, clientVars, mainVars, fenceVars>>

FixTwice ==
  /\ enc_pc = "fixed_once"
  /\ twice' = fix_encoding(once)
  /\ enc_pc' = "fixed_twice"
  /\ UNCHANGED <<text, once, runVars, pageVars, clientVars, mainVars, fenceVars>>

EncNext == FixOnce \/ FixTwice

SpecEnc == EncInit /\ [][EncNext]_vars

(* C8 as stated: applying fix_encoding twice gives the same text as        *)
(* applying it once, for every input text.                                 *)
C8_IdempotentForEveryText ==
  enc_pc = "fixed_twice" => twice = once


(* The targets of the two-code-point corruptions that begin with U+00C2.   *)
C2Targets == {176, 181, 185, 178, 179}

(* t holds U+00C2 directly before a corruption that begins with U+00C2.    *)
HasDoubledC2(t) ==
  \E k \in 1..(Len(t) - 2) :
    t[k] = 194 /\ t[k + 1] = 194 /\ t[k + 2] \in C2Targets

(* C8 amended: for every text in which no U+00C2 directly precedes a       *)
(* corruption beginning with U+00C2, applying fix_encoding twice gives the *)
(* same text as applying it once.                                          *)
C8_IdempotentWithoutDoubledC2 ==
  (enc_pc = "fixed_twice" /\ ~HasDoubledC2(text)) => twice = once

(* a text the repair changed, without a doubled U+00C2, repaired twice     *)
C8_Witness ==
  enc_pc = "fixed_twice" /\ ~HasDoubledC2(text) /\ once # text /\ twice = once

-----------------------------------------------------------------------------
(* src/extraction/formatters.py                                            *)
PageInfo(page_number, extraction_status, needs_retry) ==
  [page_number |-> page_number, extraction_date |-> "utcnow",
   extraction_status |-> extraction_status, needs_retry |-> needs_retry]

wrap_page_output(page_number, chunks, extracted_by, extraction_status, needs_retry) ==
  [page_info   |-> PageInfo(page_number, extraction_status, needs_retry),
   human_audit |-> HumanAudit(extracted_by),
   llm_chunks  |-> chunks]

RECURSIVE SumLen(_)
SumLen(wrapped) ==
  IF wrapped = <<>> THEN 0
  ELSE Len(Head(wrapped).llm_chunks) + SumLen(Tail(wrapped))

(* total_chunks counting the page wrappers instead of their chunks         *)
wrap_guideline_output_CountsPages(guideline_info, guideline_audit, wrapped) ==
  [guideline_info |-> guideline_info,
   human_audit    |-> guideline_audit,
   pages          |-> wrapped,
   total_pages    |-> Len(wrapped),
   total_chunks   |-> Len(wrapped)]

wrap_guideline_output(guideline_info, guideline_audit, wrapped) ==
  [guideline_info |-> guideline_info,
   human_audit    |-> guideline_audit,
   pages          |-> wrapped,
   total_pages    |-> Len(wrapped),
   total_chunks   |-> SumLen(wrapped)]

-----------------------------------------------------------------------------
(* src/app.py, main: the "Run extraction" handler.                         *)

(* str.lower() on the letters the sample names use                         *)
LowerChar(c) ==
  CASE c = "T" -> "t" [] c = "B" -> "b" [] c = "C" -> "c" [] c = "H" -> "h"
    [] c = "I" -> "i" [] c = "V" -> "v" [] OTHER -> c

MaxIdLen == 50

RECURSIVE JoinChars(_)
JoinChars(cs) == IF cs = <<>> THEN "" ELSE Head(cs) \o JoinChars(Tail(cs))

(* the id without the [:50]                                                *)
GuidelineIdFromNameUntruncated(name) ==
  JoinChars([k \in 1..Len(name) |->
               IF LowerChar(name[k]) = " " THEN "_" ELSE LowerChar(name[k])])

(* line 188: auto_metadata.guideline_name.lower().replace(" ", "_")[:50]   *)
(* on a name given as its sequence of characters                           *)
GuidelineIdFromName(name) ==
  LET lowered  == [k \in 1..Len(name) |-> LowerChar(name[k])]
      replaced == [k \in 1..Len(name) |-> IF lowered[k] = " " THEN "_" ELSE lowered[k]]
  IN  JoinChars(SubSeq(replaced, 1, IF Len(name) < MaxIdLen THEN Len(name) ELSE MaxIdLen))

NoInfo == [guideline_id |-> "", guideline_name |-> "", guideline_version |-> "",
           country |-> "", jurisdiction |-> "", organization |-> ""]

(* The guideline fields of two documents as main holds them at the call of *)
(* process_pages: guideline_id is derived from the name (line 188).        *)
SampleGuidelines ==
  { [guideline_id |-> GuidelineIdFromName(<<"T", "B", " ", "C", "a", "r", "e">>),
     guideline_name |-> "TB Care", guideline_version |-> "2", country |-> "ZA",
     jurisdiction |-> "National", organization |-> "DoH"],
    [guideline_id |-> GuidelineIdFromName(<<"H", "I", "V">>),
     guideline_name |-> "HIV", guideline_version |-> "", country |-> "",
     jurisdiction |-> "", organization |-> ""] }

FlatPath   == "guideline_chunks_flat.json"
NestedPath == "guideline_with_metadata.json"

(* lines 246-256: the flat chunks of one PageOutput                        *)
FlatChunksOf(output, guideline) ==
  [k \in 1..Len(output.parsed_items) |->
     [chunk_id          |-> output.parsed_items[k].chunk_info.chunk_id,
      guideline_id      |-> guideline.guideline_id,
      guideline_name    |-> guideline.guideline_name,
      guideline_version |-> guideline.guideline_version,
      page              |-> output.page_number,
      content           |-> output.parsed_items[k].content,
      human_audit       |-> output.parsed_items[k].human_audit]]

(* a wrapper that also asks for a retry of a page without records          *)
PageWrappedRetriesEmptyPages(output, created_by) ==
  LET has_errors == Len(output.validation_errors) > 0 IN
  wrap_page_output(output.page_number, output.parsed_items, created_by,
                   IF has_errors THEN "validation_failed" ELSE "success",
                   has_errors \/ output.parsed_items = <<>>)

(* lines 258-266: the page wrapper of one PageOutput                       *)
PageWrapped(output, created_by) ==
  LET has_errors == Len(output.validation_errors) > 0 IN
  wrap_page_output(output.page_number, output.parsed_items, created_by,
                   IF has_errors THEN "validation_failed" ELSE "success",
                   has_errors)

(* lines 239-256: all_items_flat over page_outputs                         *)
RECURSIVE AllItemsFlat(_, _)
AllItemsFlat(page_outputs, guideline) ==
  IF page_outputs = <<>> THEN <<>>
  ELSE FlatChunksOf(Head(page_outputs), guideline)
         \o AllItemsFlat(Tail(page_outputs), guideline)

(* lines 239-267: pages_wrapped over page_outputs                          *)
PagesWrapped(page_outputs, created_by) ==
  [k \in 1..Len(page_outputs) |-> PageWrapped(page_outputs[k], created_by)]

(* lines 270-278                                                           *)
GuidelineInfo(guideline) ==
  [guideline_id |-> guideline.guideline_id,
   guideline_name |-> guideline.guideline_name,
   guideline_version |-> guideline.guideline_version,
   country |-> guideline.country, jurisdiction |-> guideline.jurisdiction,
   organization |-> guideline.organization, regulatory_status |-> "draft"]

(* line 297                                                                *)
PagesNeedingRetry(wrapped) ==
  LET retry == SelectSeq(wrapped, LAMBDA w : w.page_info.needs_retry) IN
  [k \in 1..Len(retry) |-> retry[k].page_info.page_number]


-----------------------------------------------------------------------------
(* src/extraction/llm/parsers.py, load_prompt.  A file is is_file and its  *)
(* content as a sequence of characters.                                    *)
Whitespace == {" ", "\n", "\t"}

RECURSIVE LStrip(_)
LStrip(cs) ==
  IF cs # <<>> /\ Head(cs) \in Whitespace THEN LStrip(Tail(cs)) ELSE cs

Reverse(cs) == [k \in 1..Len(cs) |-> cs[Len(cs) + 1 - k]]

(* str.strip()                                                             *)
Strip(cs) == Reverse(LStrip(Reverse(LStrip(cs))))

(* load_prompt without the strip                                           *)
load_prompt_NoStrip(prompt_path) ==
  IF ~prompt_path.is_file
    THEN [raised |-> TRUE, exc |-> "Prompt file not found", content |-> <<>>]
  ELSE IF prompt_path.content = <<>>
    THEN [raised |-> TRUE, exc |-> "Prompt file is empty", content |-> <<>>]
  ELSE [raised |-> FALSE, exc |-> "", content |-> prompt_path.content]

(* lines 56-66: the content, or the PromptLoadError raised                 *)
load_prompt(prompt_path) ==
  IF ~prompt_path.is_file
    THEN [raised |-> TRUE, exc |-> "Prompt file not found", content |-> <<>>]
  ELSE IF Strip(prompt_path.content) = <<>>
    THEN [raised |-> TRUE, exc |-> "Prompt file is empty", content |-> <<>>]
  ELSE [raised |-> FALSE, exc |-> "", content |-> Strip(prompt_path.content)]

SamplePromptFiles ==
  { [is_file |-> FALSE, content |-> <<>>],
    [is_file |-> TRUE,  content |-> <<>>],
    [is_file |-> TRUE,  content |-> <<" ", "\n">>],
    [is_file |-> TRUE,  content |-> <<"\n", "E", "x", "t", "r", "a", "c", "t", "\n">>] }

-----------------------------------------------------------------------------
(* src/extraction/llm/parsers.py, strip_json_fence.  A text is a sequence  *)
(* of characters; U+0060, which a TLA+ string cannot hold, is named.      *)
Backtick  == "<U+0060>"
Fence     == <<Backtick, Backtick, Backtick>>
JsonFence == Fence \o <<"j", "s", "o", "n">>

(* str.find(sub) + 1: the position of the first occurrence, 0 for none     *)
Find(s, sub) ==
  LET hits == {k \in 1..(Len(s) + 1 - Len(sub)) : SubSeq(s, k, k + Len(sub) - 1) = sub}
  IN  IF hits = {} THEN 0 ELSE CHOOSE k \in hits : \A h \in hits : k <= h

(* sub in s                                                                *)
Contains(s, sub) == Find(s, sub) # 0

(* s.split(sep, 1)                                                         *)
SplitOnce(s, sep) ==
  LET k == Find(s, sep)
  IN  IF k = 0 THEN <<s>>
      ELSE <<SubSeq(s, 1, k - 1), SubSeq(s, k + Len(sep), Len(s))>>

strip_json_fence(t) ==
  IF Contains(t, JsonFence)
    THEN Strip(SplitOnce(SplitOnce(t, JsonFence)[2], Fence)[1])
  ELSE IF Contains(t, Fence)
    THEN Strip(SplitOnce(SplitOnce(t, Fence)[2], Fence)[1])
  ELSE Strip(t)

(* Texts are concatenations of at most MaxPieces pieces: the fence marker, *)
(* two labels, a newline and two letters of content.                       *)
FencePieces ==
  {Fence, <<"j", "s", "o", "n">>, <<"p", "y">>, <<"\n">>, <<"a">>, <<"b">>}

RECURSIVE Concat(_)
Concat(ps) == IF ps = <<>> THEN <<>> ELSE Head(ps) \o Concat(Tail(ps))

FenceTexts == {Concat(ps) : ps \in SeqsUpTo(FencePieces, MaxPieces)}

FenceInit ==
  /\ fn_text \in FenceTexts
  /\ fn_out = <<>> /\ fn_pc = "input"
  /\ RunIdle /\ PageIdle /\ EncIdle /\ ClientIdle /\ MainIdle

StripFence ==
  /\ fn_pc = "input"
  /\ fn_out' = strip_json_fence(fn_text)
  /\ fn_pc' = "stripped"
  /\ UNCHANGED <<fn_text, runVars, pageVars, encVars, clientVars, mainVars>>

FenceNext == StripFence

SpecFence == FenceInit /\ [][FenceNext]_vars

-----------------------------------------------------------------------------
(* src/extraction/llm/client.py, VisionClient.                             *)
PLACEHOLDER_API_KEY == "YOUR_API_KEY"

(* Python's None where a str is expected                                   *)
NoneValue == "<None>"

(* not s                                                                   *)
Falsy(s) == s = "" \/ s = NoneValue

(* a constructor that rejects only a missing key                           *)
VisionClientInitAcceptsPlaceholder(api_key, model, provider) ==
  IF Falsy(api_key) THEN "API key is required."
  ELSE IF Falsy(model) THEN "Model name is required."
  ELSE IF provider \notin {"anthropic", "openai"} THEN "Unknown provider: " \o provider
  ELSE ""

(* __init__ (lines 18-40): the message of the ValueError raised, or ""    *)
(* when the client is constructed                                          *)
VisionClientInit(api_key, model, provider) ==
  IF Falsy(api_key) \/ api_key = PLACEHOLDER_API_KEY THEN "API key is required."
  ELSE IF Falsy(model) THEN "Model name is required."
  ELSE IF provider \notin {"anthropic", "openai"} THEN "Unknown provider: " \o provider
  ELSE ""

(* extract, lines 50-51: if not image_bytes: raise ValueError              *)
ImageBytesEmpty(image_bytes) == image_bytes = <<>>

(* extract, lines 53-56 and the two _extract_* methods: the upstream call  *)
(* is awaited with no handler around it, so its exception is the           *)
(* exception of extract                                                    *)
ExtractEnds(upstream) == IF upstream = "failed" THEN "raised" ELSE "returned"

SampleApiKeys  == {"", NoneValue, PLACEHOLDER_API_KEY, "sk-ant-1"}
SampleModels   == {"", "claude-sonnet-4-20250514", "gpt-4o"}
SampleProviders == {"anthropic", "openai", "azure"}
SampleImages   == {<<>>, <<137, 80, 78, 71>>}

ClientInit ==
  /\ cl_pc = "new"
  /\ cl_api_key \in SampleApiKeys
  /\ cl_model \in SampleModels
  /\ cl_provider \in SampleProviders
  /\ cl_log = <<>>
  /\ cl_requests = 0
  /\ RunIdle /\ PageIdle /\ EncIdle /\ MainIdle /\ FenceIdle

(* lines 18-40                                                             *)
Construct ==
  /\ cl_pc = "new"
  /\ cl_pc' = IF VisionClientInit(cl_api_key, cl_model, cl_provider) = ""
                THEN "ready" ELSE "rejected"
  /\ UNCHANGED <<cl_api_key, cl_model, cl_provider, cl_log, cl_requests, runVars,
                 pageVars, encVars, mainVars, fenceVars>>

(* lines 42-51: extract called with empty image bytes raises before any    *)
(* request                                                                 *)
ExtractRejectsImage ==
  /\ cl_pc = "ready"
  /\ Len(cl_log) < MaxCalls
  /\ \E image_bytes \in SampleImages :
       /\ ImageBytesEmpty(image_bytes)
       /\ cl_log' = Append(cl_log, [image_empty |-> TRUE, upstream |-> "none",
                                    outcome |-> "raised"])
  /\ UNCHANGED <<cl_pc, cl_api_key, cl_model, cl_provider, cl_requests, runVars,
                 pageVars, encVars, mainVars, fenceVars>>

(* lines 53-56, 62-64 / 95-97: extract issues the upstream request and     *)
(* awaits it                                                               *)
ExtractRequests ==
  /\ cl_pc = "ready"
  /\ Len(cl_log) < MaxCalls
  /\ \E image_bytes \in SampleImages :
       /\ ~ImageBytesEmpty(image_bytes)
       /\ cl_log' = Append(cl_log, [image_empty |-> FALSE, upstream |-> "pending",
                                    outcome |-> "pending"])
  /\ cl_requests' = cl_requests + 1
  /\ cl_pc' = "requesting"
  /\ UNCHANGED <<cl_api_key, cl_model, cl_provider, runVars, pageVars, encVars,
                 mainVars, fenceVars>>

(* the upstream call returns a response or raises                          *)
UpstreamEnds(upstream) ==
  /\ cl_pc = "requesting"
  /\ cl_log' = [cl_log EXCEPT ![Len(cl_log)] =
                  [image_empty |-> FALSE, upstream |-> upstream,
                   outcome |-> ExtractEnds(upstream)]]
  /\ cl_pc' = "ready"
  /\ UNCHANGED <<cl_api_key, cl_model, cl_provider, cl_requests, runVars, pageVars,
                 encVars, mainVars, fenceVars>>

UpstreamReturns == UpstreamEnds("ok")
UpstreamFails   == UpstreamEnds("failed")

ClientNext ==
  \/ Construct
  \/ ExtractRejectsImage
  \/ ExtractRequests
  \/ UpstreamReturns
  \/ UpstreamFails

SpecClient == ClientInit /\ [][ClientNext]_vars

-----------------------------------------------------------------------------
(* src/schemas/metadata_extraction/models.py                               *)
GuidelineMetadataExtraction ==
  << Req("guideline_name", "str"),
     Opt("guideline_id", "str", EmptyStr),
     Opt("guideline_version", "str", EmptyStr),
     Opt("publication_date", "str", EmptyStr),
     Opt("last_updated_date", "str", EmptyStr),
     Opt("organization", "str", EmptyStr),
     Opt("country", "str", EmptyStr),
     Opt("jurisdiction_level", "str", EmptyStr),
     Opt("jurisdiction_name", "str", EmptyStr),
     Opt("language", "str", EmptyStr),
     Opt("intended_audience", "str", EmptyStr) >>

(* A reply of the bootstrap that is a JSON object.                         *)
MetaObject(fields) == [shape |-> "json_object", items |-> <<>>, fields |-> fields]

(* src/extraction/metadata_extractor.py, extract_metadata_async lines      *)
(* 29-34: json.loads and GuidelineMetadataExtraction.model_validate        *)
extract_metadata(raw_text) ==
  IF raw_text.shape = "not_json"
    THEN [ok |-> FALSE,
          instance |-> Instance("GuidelineMetadataExtraction",
                                GuidelineMetadataExtraction, NoFields),
          exc |-> "JSONDecodeError"]
  ELSE IF raw_text.shape # "json_object"
    THEN [ok |-> FALSE,
          instance |-> Instance("GuidelineMetadataExtraction",
                                GuidelineMetadataExtraction, NoFields),
          exc |-> ValidationErrorText("GuidelineMetadataExtraction",
                    <<"Input should be a valid dictionary or instance">>)]
  ELSE ModelValidate("GuidelineMetadataExtraction", GuidelineMetadataExtraction,
                     raw_text.fields)

(* Attribute access on a pydantic instance: the declared fields are its    *)
(* attributes; any other name raises AttributeError.                       *)
HasAttr(instance, name) == name \in DOMAIN instance.fields

AttributeErrorText(instance, name) ==
  "'" \o instance.model \o "' object has no attribute '" \o name \o "'"

(* app.py 188-193: the attributes of auto_metadata main reads, in order    *)
MainReads ==
  <<"guideline_name", "guideline_name", "guideline_version", "country",
    "jurisdiction", "organization">>

(* the position in MainReads of the first read that raises, 0 if none does *)
FirstMissing(auto_metadata) ==
  LET missing == {k \in 1..Len(MainReads) : ~HasAttr(auto_metadata, MainReads[k])} IN
  IF missing = {} THEN 0 ELSE CHOOSE k \in missing : \A j \in missing : k <= j

(* app.py 188-194: the guideline fields derived from auto_metadata, or the *)
(* AttributeError of the first read of an attribute it does not have; the  *)
(* locals assigned before that read hold their values, the others nothing. *)
InfoFromMetadata(auto_metadata) ==
  LET k == FirstMissing(auto_metadata)
      f == auto_metadata.fields
      assigned(n) == k = 0 \/ n < k
  IN  [raised |-> k # 0,
       exc    |-> IF k # 0 THEN AttributeErrorText(auto_metadata, MainReads[k]) ELSE "",
       info   |->
         [guideline_id      |-> IF assigned(1)
                                  THEN GuidelineIdFromName(f["guideline_name"].chars)
                                  ELSE "",
          guideline_name    |-> IF assigned(2) THEN f["guideline_name"].s ELSE "",
          guideline_version |-> IF assigned(3) THEN f["guideline_version"].s ELSE "",
          country           |-> IF assigned(4) THEN f["country"].s ELSE "",
          jurisdiction      |-> IF assigned(5) THEN f["jurisdiction"].s ELSE "",
          organization      |-> IF assigned(6) THEN f["organization"].s ELSE ""]]

(* A str value whose characters main works on (lower, replace, slice).     *)
VChars(chars) == [t |-> "str", s |-> JoinChars(chars), n |-> 0, chars |-> chars]

(* Replies of the bootstrap's client.extract.                              *)
MetaFull ==
  MetaObject(("guideline_name" :> VChars(<<"T", "B", " ", "C", "a", "r", "e">>))
             @@ ("guideline_version" :> VStr("2"))
             @@ ("country" :> VStr("ZA"))
             @@ ("organization" :> VStr("DoH"))
             @@ ("jurisdiction_level" :> VStr("National"))
             @@ ("jurisdiction_name" :> VStr("Western Cape")))

MetaNameOnly == MetaObject("guideline_name" :> VChars(<<"H", "I", "V">>))

(* a reply that carries a key named jurisdiction, which the schema does    *)
(* not declare                                                             *)
MetaWithJurisdictionKey ==
  MetaObject(("guideline_name" :> VChars(<<"H", "I", "V">>))
             @@ ("jurisdiction" :> VStr("National")))

(* a reply that carries an identifier                                      *)
MetaWithId ==
  MetaObject(("guideline_name" :> VChars(<<"T", "B", " ", "C", "a", "r", "e">>))
             @@ ("guideline_id" :> VStr("NDOH-TB-2023")))

(* a name of 56 characters                                                 *)
MetaLongName ==
  MetaObject("guideline_name" :>
               VChars(Concat([k \in 1..7 |-> <<"T", "B", " ", "C", "a", "r", "e", " ">>])))

MetaMissingName == MetaObject("guideline_version" :> VStr("2"))

MetaNameNotString == MetaObject("guideline_name" :> VInt(7))

SampleMetadataReplies ==
  {NotJson, Array(<<>>), MetaFull, MetaNameOnly, MetaWithJurisdictionKey,
   MetaWithId, MetaLongName, MetaMissingName, MetaNameNotString}

(* Files a previous run may have left in output_dir.                       *)
PreviousRunFiles == {RawPath(1), PageJsonPath(1), FlatPath, NestedPath}

(* The API key and model name text inputs (app.py 123-133).                *)
UiApiKeys    == {"", PLACEHOLDER_API_KEY, "sk-ant-1"}
UiModelNames == {"", "claude-sonnet-4-20250514", "claude-3-5-haiku-20241022"}

-----------------------------------------------------------------------------
(* SpecMain: the "Run extraction" handler of main (app.py 168-230) up to   *)
(* the call of process_pages.                                              *)
MainInit ==
  /\ m_pc = "clicked"
  /\ m_api_key \in UiApiKeys
  /\ m_model_name \in UiModelNames
  /\ m_prompt_file \in SamplePromptFiles
  /\ m_files \in {{}, PreviousRunFiles}
  /\ m_reply = NotJson
  /\ m_info = NoInfo
  /\ m_requests = 0
  /\ RunIdle /\ PageIdle /\ EncIdle /\ ClientIdle /\ FenceIdle

(* lines 169-171: no API key, the handler returns                          *)
NoApiKey ==
  /\ m_pc = "clicked"
  /\ Falsy(m_api_key)
  /\ m_pc' = "no_key"
  /\ UNCHANGED <<m_api_key, m_model_name, m_prompt_file, m_files, m_reply, m_info,
                 m_requests, runVars, pageVars, encVars, clientVars, fenceVars>>

(* lines 173-179: the files of output_dir are removed                      *)
CleanOutputDir ==
  /\ m_pc = "clicked"
  /\ ~Falsy(m_api_key)
  /\ m_files' = {}
  /\ m_pc' = "cleaned"
  /\ UNCHANGED <<m_api_key, m_model_name, m_prompt_file, m_reply, m_info, m_requests,
                 runVars, pageVars, encVars, clientVars, fenceVars>>

(* lines 183, 228-230: the constructor of the metadata client raises       *)
MetadataClientRejected ==
  /\ m_pc = "cleaned"
  /\ VisionClientInit(m_api_key, m_model_name, "anthropic") # ""
  /\ m_pc' = "failed"
  /\ UNCHANGED <<m_api_key, m_model_name, m_prompt_file, m_files, m_reply, m_info,
                 m_requests, runVars, pageVars, encVars, clientVars, fenceVars>>

(* lines 183-185, metadata_extractor.py 21-24, app.py 228-230: the client  *)
(* is constructed, the first page rendered, and load_prompt raises for the *)
(* metadata prompt                                                         *)
BootstrapPromptUnavailable ==
  /\ m_pc = "cleaned"
  /\ VisionClientInit(m_api_key, m_model_name, "anthropic") = ""
  /\ load_prompt(m_prompt_file).raised
  /\ m_pc' = "failed"
  /\ UNCHANGED <<m_api_key, m_model_name, m_prompt_file, m_files, m_reply, m_info,
                 m_requests, runVars, pageVars, encVars, clientVars, fenceVars>>

(* lines 183-185, metadata_extractor.py 21-27: the client is constructed,  *)
(* the first page rendered, the metadata prompt loaded and client.extract  *)
(* awaited                                                                 *)
BootstrapCalls ==
  /\ m_pc = "cleaned"
  /\ VisionClientInit(m_api_key, m_model_name, "anthropic") = ""
  /\ ~load_prompt(m_prompt_file).raised
  /\ m_requests' = m_requests + 1
  /\ m_pc' = "bootstrap_awaiting"
  /\ UNCHANGED <<m_api_key, m_model_name, m_prompt_file, m_files, m_reply, m_info,
                 runVars, pageVars, encVars, clientVars, fenceVars>>

(* metadata_extractor.py 27, app.py 228-230: client.extract raises         *)
BootstrapTransportFails ==
  /\ m_pc = "bootstrap_awaiting"
  /\ m_pc' = "failed"
  /\ UNCHANGED <<m_api_key, m_model_name, m_prompt_file, m_files, m_reply, m_info,
                 m_requests, runVars, pageVars, encVars, clientVars, fenceVars>>

(* metadata_extractor.py 29-34, app.py 228-230: the reply does not parse   *)
(* or does not validate                                                    *)
BootstrapReplyRejected ==
  /\ m_pc = "bootstrap_awaiting"
  /\ \E raw_text \in SampleMetadataReplies :
       /\ ~extract_metadata(raw_text).ok
       /\ m_reply' = raw_text
  /\ m_pc' = "failed"
  /\ UNCHANGED <<m_api_key, m_model_name, m_prompt_file, m_files, m_info, m_requests,
                 runVars, pageVars, encVars, clientVars, fenceVars>>

(* metadata_extractor.py 29-34, app.py 185-196, 228-230: the reply         *)
(* validates and main derives the guideline fields from auto_metadata; an  *)
(* exception of that derivation is reported as "Extraction failed"         *)
BootstrapReplyAccepted ==
  /\ m_pc = "bootstrap_awaiting"
  /\ \E raw_text \in SampleMetadataReplies :
       LET m == extract_metadata(raw_text)
           r == InfoFromMetadata(m.instance)
       IN  /\ m.ok
           /\ m_reply' = raw_text
           /\ m_info' = r.info
           /\ m_pc' = IF r.raised THEN "failed" ELSE "metadata_ok"
  /\ UNCHANGED <<m_api_key, m_model_name, m_prompt_file, m_files, m_requests, runVars,
                 pageVars, encVars, clientVars, fenceVars>>

MainNext ==
  \/ NoApiKey
  \/ CleanOutputDir
  \/ MetadataClientRejected
  \/ BootstrapPromptUnavailable
  \/ BootstrapCalls
  \/ BootstrapTransportFails
  \/ BootstrapReplyRejected
  \/ BootstrapReplyAccepted

SpecMain == MainInit /\ [][MainNext]_vars

-----------------------------------------------------------------------------
(* Spec: one extraction run, from the call of process_pages (app.py 216,   *)
(* pipeline.py 160) to the saved outputs (app.py 232-297).                 *)

(* Replies the page tasks of a run receive.                                *)
RunReplies ==
  { NotJson, JsonObject, Array(<<>>), Array(<<GenericOk>>),
    Array(<<GenericWithAudit, WarningOk>>), Array(<<GenericOk, Unicorn>>),
    Array(<<WarningScore11>>), Array(<<GenericOk, NumberElem>>) }

total == Len(pages)

(* pages[i : i + batch_size], as positions of pages                        *)
BatchAt(start) ==
  {k \in 1..total : start < k /\ k <= start + batch_size}

Failed(p) == task[p] \in {"transport_failed", "crashed"}

(* a wait that returns as soon as one task of the batch is done            *)
GatherFirstDone(batch) == \E k \in batch : task[pages[k]] = "done"

(* asyncio.gather has a result for every task of the batch         *)
GatherDone(batch) == \A k \in batch : task[pages[k]] = "done"

(* asyncio.gather raises: some task of the batch ended with an     *)
(* exception                                                               *)
GatherRaised(batch) == \E k \in batch : Failed(pages[k])

(* the results of the batch in the order its tasks completed               *)
GatherResultsAsCompleted(start) ==
  LET done == SelectSeq(notified, LAMBDA p : \E k \in BatchAt(start) : pages[k] = p) IN
  [k \in 1..Len(done) |-> returned[done[k]]]

(* line 154: the value of asyncio.gather, the results in the order of the  *)
(* tasks handed to it                                                      *)
GatherResults(start) ==
  [k \in 1..Cardinality(BatchAt(start)) |-> returned[pages[start + k]]]

(* range(0, total, batch_size) yields i: the loop body runs for i          *)
LoopRuns == batch_size > 0 /\ i < total

(* range(0, total, batch_size) is exhausted (a negative step from 0 yields  *)
(* nothing)                                                                *)
LoopOver == batch_size < 0 \/ (batch_size > 0 /\ i >= total)

(* process_pages is called with a batch size out of sizes                  *)
RunInit(sizes) ==
  /\ pc = "start"
  /\ info \in SampleGuidelines
  /\ prompt_file \in SamplePromptFiles
  /\ \E n \in 1..MaxPages : pages = [k \in 1..n |-> k]
  /\ batch_size \in sizes
  /\ i = 0
  /\ task = [p \in 1..Len(pages) |-> "new"]
  /\ reply = [p \in 1..Len(pages) |-> NotJson]
  /\ returned = [p \in 1..Len(pages) |-> NoOutput]
  /\ outputs = <<>>
  /\ completed = 0
  /\ progress = <<>>
  /\ notified = <<>>
  /\ calls = [p \in 1..Len(pages) |-> 0]
  /\ files = {}
  /\ flat = <<>>
  /\ nested = <<>>
  /\ PageIdle /\ EncIdle /\ ClientIdle /\ MainIdle /\ FenceIdle

(* main passes the batch size of its number input, which is at least 1     *)
(* (app.py 135-141)                                                        *)
Init == RunInit(1..MaxBatch)

(* pipeline.py 174-178, 128-130: load_prompt returns the base prompt and   *)
(* _process_pdf_async starts                                               *)
StartProcessPages ==
  /\ pc = "start"
  /\ ~load_prompt(prompt_file).raised
  /\ pc' = "scheduling"
  /\ i' = 0 /\ outputs' = <<>> /\ completed' = 0
  /\ UNCHANGED <<info, prompt_file, pages, batch_size, task, reply, returned,
                 progress, notified, files, flat, nested, calls, pageVars, encVars,
                 clientVars, mainVars, fenceVars>>

(* pipeline.py 175, parsers.py 59-64, app.py 228-230: load_prompt raises   *)
(* PromptLoadError                                                         *)
PromptUnavailable ==
  /\ pc = "start"
  /\ load_prompt(prompt_file).raised
  /\ pc' = "failed"
  /\ UNCHANGED <<info, prompt_file, pages, batch_size, i, task, reply, returned,
                 outputs, completed, progress, notified, files, flat, nested,
                 calls, pageVars, encVars, clientVars, mainVars, fenceVars>>

(* pipeline.py 138-154, 46-49: the tasks of the batch at i are created and *)
(* each runs to its await of client.extract                                *)
LaunchBatch ==
  /\ pc = "scheduling"
  /\ LoopRuns
  /\ \A k \in BatchAt(i) : task[pages[k]] = "new"
  /\ task' = [p \in DOMAIN task |->
                IF \E k \in BatchAt(i) : pages[k] = p THEN "awaiting" ELSE task[p]]
  /\ calls' = [p \in DOMAIN calls |->
                 IF \E k \in BatchAt(i) : pages[k] = p THEN calls[p] + 1 ELSE calls[p]]
  /\ UNCHANGED <<pc, info, prompt_file, pages, batch_size, i, reply, returned,
                 outputs, completed, progress, notified, files, flat, nested,
                 pageVars, encVars, clientVars, mainVars, fenceVars>>

(* pipeline.py 49-112, 132-136: client.extract returns raw_text to the     *)
(* task of page p, which validates, writes its files, reports and returns  *)
PageCompletes(p) ==
  /\ pc = "scheduling"
  /\ task[p] = "awaiting"
  /\ \E raw_text \in RunReplies :
       LET r == ProcessReply(info.guideline_id, p, SampleExtractedBy, raw_text) IN
         /\ ~r.raised
         /\ reply' = [reply EXCEPT ![p] = raw_text]
         /\ returned' = [returned EXCEPT ![p] = r.output]
         /\ files' = files \cup r.written
  /\ task' = [task EXCEPT ![p] = "done"]
  /\ notified' = Append(notified, p)
  /\ completed' = completed + 1
  /\ progress' = Append(progress, <<completed + 1, total>>)
  /\ UNCHANGED <<pc, info, prompt_file, pages, batch_size, i, outputs, flat, nested,
                 calls, pageVars, encVars, clientVars, mainVars, fenceVars>>

(* pipeline.py 49-57: client.extract returns raw_text and validate_content *)
(* raises; the task ends with the exception                                *)
PageCrashes(p) ==
  /\ pc = "scheduling"
  /\ task[p] = "awaiting"
  /\ \E raw_text \in RunReplies :
       /\ ProcessReply(info.guideline_id, p, SampleExtractedBy, raw_text).raised
       /\ reply' = [reply EXCEPT ![p] = raw_text]
  /\ task' = [task EXCEPT ![p] = "crashed"]
  /\ UNCHANGED <<pc, info, prompt_file, pages, batch_size, i, returned, outputs,
                 completed, progress, notified, files, flat, nested, calls, pageVars,
                 encVars, clientVars, mainVars, fenceVars>>

(* pipeline.py 49: client.extract raises; the task ends with the exception *)
TransportFails(p) ==
  /\ pc = "scheduling"
  /\ task[p] = "awaiting"
  /\ task' = [task EXCEPT ![p] = "transport_failed"]
  /\ UNCHANGED <<pc, info, prompt_file, pages, batch_size, i, reply, returned,
                 outputs, completed, progress, notified, files, flat, nested,
                 calls, pageVars, encVars, clientVars, mainVars, fenceVars>>

(* pipeline.py 154-155, 138: gather returns the results in task order,     *)
(* outputs.extend, and the loop moves to the next batch                    *)
BatchReturns ==
  /\ pc = "scheduling"
  /\ LoopRuns
  /\ GatherDone(BatchAt(i))
  /\ outputs' = outputs \o GatherResults(i)
  /\ i' = i + batch_size
  /\ UNCHANGED <<pc, info, prompt_file, pages, batch_size, task, reply, returned,
                 completed, progress, notified, files, flat, nested, calls, pageVars,
                 encVars, clientVars, mainVars, fenceVars>>

(* pipeline.py 154, 178, app.py 228-230: gather raises the exception of a  *)
(* failed task, asyncio.run cancels the tasks still pending, process_pages *)
(* raises and main reports the failure and returns                         *)
RunAborts ==
  /\ pc = "scheduling"
  /\ LoopRuns
  /\ GatherRaised(BatchAt(i))
  /\ task' = [p \in DOMAIN task |-> IF task[p] = "awaiting" THEN "cancelled" ELSE task[p]]
  /\ pc' = "failed"
  /\ UNCHANGED <<info, prompt_file, pages, batch_size, i, reply, returned, outputs,
                 completed, progress, notified, files, flat, nested, calls, pageVars,
                 encVars, clientVars, mainVars, fenceVars>>

(* pipeline.py 157, 178: the loop is over and process_pages returns        *)
ProcessPagesReturns ==
  /\ pc = "scheduling"
  /\ LoopOver
  /\ pc' = "returned"
  /\ UNCHANGED <<info, prompt_file, pages, batch_size, i, task, reply, returned,
                 outputs, completed, progress, notified, files, flat, nested,
                 calls, pageVars, encVars, clientVars, mainVars, fenceVars>>

(* app.py 232-297: assemble and save the flat and the nested output        *)
Assemble ==
  /\ pc = "returned"
  /\ flat' = AllItemsFlat(outputs, info)
  /\ nested' = wrap_guideline_output(GuidelineInfo(info), HumanAudit(SampleExtractedBy),
                                     PagesWrapped(outputs, SampleExtractedBy))
  /\ files' = files \cup {FlatPath, NestedPath}
  /\ pc' = "assembled"
  /\ UNCHANGED <<info, prompt_file, pages, batch_size, i, task, reply, returned,
                 outputs, completed, progress, notified, calls, pageVars, encVars,
                 clientVars, mainVars, fenceVars>>

Next ==
  \/ StartProcessPages
  \/ PromptUnavailable
  \/ LaunchBatch
  \/ \E p \in DOMAIN task : PageCompletes(p)
  \/ \E p \in DOMAIN task : PageCrashes(p)
  \/ \E p \in DOMAIN task : TransportFails(p)
  \/ BatchReturns
  \/ RunAborts
  \/ ProcessPagesReturns
  \/ Assemble

Spec == Init /\ [][Next]_vars

-----------------------------------------------------------------------------
(* SpecAnyBatch: process_pages called directly, with any integer as        *)
(* batch_size (pipeline.py 160-191 checks none of its arguments).          *)

(* batch sizes of a direct call, zero and negative ones included           *)
AnyBatchSizes == (0 - MaxBatch)..MaxBatch

InitAnyBatch == RunInit(AnyBatchSizes)

(* pipeline.py 138, 178: range() raises ValueError for a step of zero and  *)
(* process_pages raises                                                    *)
RangeRaises ==
  /\ pc = "scheduling"
  /\ batch_size = 0
  /\ pc' = "failed"
  /\ UNCHANGED <<info, prompt_file, pages, batch_size, i, task, reply, returned,
                 outputs, completed, progress, notified, files, flat, nested,
                 calls, pageVars, encVars, clientVars, mainVars, fenceVars>>

NextAnyBatch == Next \/ RangeRaises

SpecAnyBatch == InitAnyBatch /\ [][NextAnyBatch]_vars


-----------------------------------------------------------------------------
(* Properties of _process_page and validate_content, under SpecPage.      *)

(* an element that validate_content, given it alone, does not accept       *)
FailsAlone(e) == e.kind # "object" \/ validate_content(<<e>>).valid = <<>>

(* C1: when _process_page returns for a reply array with at least one      *)
(* element that fails validation, the PageOutput has no parsed_items and   *)
(* some validation_errors, whatever else the array holds; and no           *)
(* PageOutput has both lists non-empty.                                    *)
C1_AllOrNothing ==
  pg_pc = "returned" =>
    /\ (pg_reply.shape = "array"
         /\ \E k \in 1..Len(pg_reply.items) : FailsAlone(pg_reply.items[k]))
       => (pg_out.parsed_items = <<>> /\ pg_out.validation_errors # <<>>)
    /\ ~(pg_out.parsed_items # <<>> /\ pg_out.validation_errors # <<>>)

(* a returned page whose reply holds an element that validates alone and   *)
(* one that does not                                                       *)
C1_Witness ==
  /\ pg_pc = "returned"
  /\ pg_reply.shape = "array"
  /\ \E k \in 1..Len(pg_reply.items) : FailsAlone(pg_reply.items[k])
  /\ \E k \in 1..Len(pg_reply.items) : ~FailsAlone(pg_reply.items[k])
  /\ pg_out.parsed_items = <<>>
  /\ pg_out.validation_errors # <<>>

(* the content_type of an object element is absent or not a known value    *)
UnknownType(e) ==
  /\ e.kind = "object"
  /\ \/ "content_type" \notin DOMAIN e.fields
     \/ e.fields["content_type"].t # "str"
     \/ e.fields["content_type"].s \notin KnownContentTypes

(* the value the error names: the content_type as Python prints it, or     *)
(* unknown when the key is absent                                          *)
NamedValue(e) ==
  IF "content_type" \in DOMAIN e.fields THEN e.fields["content_type"].s ELSE "unknown"

UnknownTypeMessage(index, value) ==
  "Item " \o ToString(index) \o ": Unknown content_type '" \o value
    \o "'. Must be one of: clinical_pathway, reference_table, drug_monograph, "
    \o "warning_signs, diagnostic_criteria, patient_education, generic"

(* C3: once validate_content has returned, every element whose             *)
(* content_type is absent or unknown has exactly one error, which names    *)
(* its 0-based index and the value, and the records number at most the     *)
(* elements of known type (none is added for it).                          *)
C3_DiscriminatorClosure ==
  pg_pc \in {"validated", "returned"} =>
    LET items   == ParsedItems(pg_reply)
        unknown == {k \in 1..Len(items) : UnknownType(items[k])}
    IN  /\ \A k \in unknown :
             Cardinality({j \in 1..Len(pg_errors) :
                            pg_errors[j] = UnknownTypeMessage(k - 1, NamedValue(items[k]))}) = 1
        /\ Len(pg_errors) >= Cardinality(unknown)
        /\ Len(pg_valid) <= Len(items) - Cardinality(unknown)
        /\ \A j \in 1..Len(pg_valid) :
             pg_valid[j].fields["content_type"].s \in KnownContentTypes

(* validate_content returned for an array holding a valid element and, at  *)
(* index 1, an element of unknown type                                     *)
C3_Witness ==
  /\ pg_pc = "validated"
  /\ Len(pg_reply.items) = 2
  /\ ~FailsAlone(pg_reply.items[1])
  /\ UnknownType(pg_reply.items[2])
  /\ Len(pg_valid) = 1
  /\ pg_errors = <<UnknownTypeMessage(1, NamedValue(pg_reply.items[2]))>>


-----------------------------------------------------------------------------
(* Properties of a run, under Spec.                                        *)

RunEnded == pc \in {"failed", "assembled"}
NoCrash  == \A p \in DOMAIN task : task[p] # "crashed"
SomeTransportFailure == \E p \in DOMAIN task : task[p] = "transport_failed"

(* the position in outputs / nested.pages of the PageOutput of page p      *)
PositionsOf(p) == {k \in 1..Len(outputs) : outputs[k].page_number = p}

(* C2 as stated: a page whose reply is not parseable JSON, or is JSON but  *)
(* no array, gets a PageOutput with zero records and exactly one error,    *)
(* and is reported with extraction_status validation_failed and            *)
(* needs_retry true.                                                       *)
C2_UnparseableReplyIsOneError ==
  /\ \A p \in DOMAIN task :
       (task[p] = "done" /\ reply[p].shape # "array") =>
         /\ returned[p].parsed_items = <<>>
         /\ Len(returned[p].validation_errors) = 1
  /\ pc = "assembled" =>
       \A k \in 1..Len(outputs) :
         outputs[k].raw_text.shape # "array" =>
           /\ nested.pages[k].page_info.extraction_status = "validation_failed"
           /\ nested.pages[k].page_info.needs_retry

(* C4 as stated: when client.extract raises for one page, no sibling task  *)
(* is cancelled, and when the run has ended every other page has its       *)
(* PageOutput in the list the scheduler returned.                          *)
C4_TransportFailureIsPageScoped ==
  (NoCrash /\ SomeTransportFailure) =>
    /\ \A q \in DOMAIN task : task[q] # "cancelled"
    /\ RunEnded =>
         \A q \in DOMAIN task :
           task[q] # "transport_failed" =>
             (task[q] = "done" /\ PositionsOf(q) # {})

(* C5 as stated: once page work has started, the run ends with both        *)
(* run-level artifacts written even if some pages failed.                  *)
C5_RunProducesBothArtifacts ==
  (RunEnded /\ NoCrash /\ \E p \in DOMAIN task : task[p] # "new") =>
    /\ pc = "assembled"
    /\ {FlatPath, NestedPath} \subseteq files

(* C6 as stated: a run over N pages invokes the progress callback exactly  *)
(* N times, the k-th call with (k, N).                                     *)
C6_ProgressExactlyN ==
  (RunEnded /\ NoCrash /\ \E p \in DOMAIN task : task[p] # "new") =>
    progress = [k \in 1..total |-> <<k, total>>]

(* the 0-based number of the batch a page position falls in                *)
BatchNumber(k) == (k - 1) \div batch_size

Finished(p) == task[p] \in {"done", "transport_failed", "crashed"}

(* C7: no task of a later batch has been started while a task of an        *)
(* earlier batch is unfinished, and at most batch_size transport calls     *)
(* are outstanding.                                                        *)
C7_BatchesSequential ==
  /\ \A a, b \in 1..total :
       (BatchNumber(a) < BatchNumber(b) /\ task[pages[b]] # "new")
         => Finished(pages[a])
  /\ Cardinality({p \in DOMAIN task : task[p] = "awaiting"}) <= batch_size

(* a task of the second batch is awaiting its reply                        *)
C7_Witness ==
  /\ pc = "scheduling"
  /\ \E b \in 1..total : BatchNumber(b) >= 1 /\ task[pages[b]] = "awaiting"
  /\ \A a \in 1..total : BatchNumber(a) = 0 => task[pages[a]] = "done"

(* f"{page:03d}" for the page numbers of a run, all below 10               *)
ThreeDigits(p) == "00" \o ToString(p)

AcceptedAt == {<<p, idx>> \in (DOMAIN task) \X (1..MaxItems) :
                 task[p] = "done" /\ idx <= Len(returned[p].parsed_items)}

(* the ids of pages of two, three and four digits (read once, at the start *)
(* of the run: it does not depend on the state)                            *)
WiderPagesDistinct ==
  /\ ChunkId("g", 12, 1) = "g_p012_1"
  /\ ChunkId("g", 123, 2) = "g_p123_2"
  /\ ChunkId("g", 1234, 2) = "g_p1234_2"
  /\ \A pa, pb \in SamplePageNumbers \cup {11} : \A ia, ib \in {1, 2, 11, 12} :
       <<pa, ia>> # <<pb, ib>> => ChunkId("g", pa, ia) # ChunkId("g", pb, ib)

(* C9: the chunk_id of the idx-th record of page p is                      *)
(* {guideline_id}_p{page, 3 digits}_{idx}, records are numbered from 1 in  *)
(* the order of the reply array, and no two accepted records of a run      *)
(* share a chunk_id (nor do ids of pages of different widths).             *)
C9_ChunkIds ==
  /\ \A pi \in AcceptedAt :
       LET p == pi[1]  idx == pi[2]  chunk == returned[p].parsed_items[idx] IN
         /\ chunk.chunk_info.chunk_id =
              info.guideline_id \o "_p" \o ThreeDigits(p) \o "_" \o ToString(idx)
         /\ chunk.content["topic"] = reply[p].items[idx].fields["topic"]
         /\ Len(returned[p].parsed_items) = Len(reply[p].items)
  /\ \A pi, qj \in AcceptedAt :
       pi # qj =>
         returned[pi[1]].parsed_items[pi[2]].chunk_info.chunk_id
           # returned[qj[1]].parsed_items[qj[2]].chunk_info.chunk_id
  /\ pc = "assembled" =>
       \A a, b \in 1..Len(flat) : a # b => flat[a].chunk_id # flat[b].chunk_id
  /\ pc = "start" => WiderPagesDistinct

(* an assembled run with records on at least two pages, one of them with   *)
(* two records                                                             *)
C9_Witness ==
  /\ pc = "assembled"
  /\ \E p, q \in DOMAIN task :
       /\ p # q
       /\ Len(returned[p].parsed_items) = 2
       /\ Len(returned[q].parsed_items) >= 1

NestedPositions ==
  UNION {{<<k, j>> : j \in 1..Len(nested.pages[k].llm_chunks)} :
           k \in 1..Len(nested.pages)}

Corresponds(a, kj) ==
  LET w == nested.pages[kj[1]]  chunk == w.llm_chunks[kj[2]] IN
    /\ chunk.chunk_info.chunk_id = flat[a].chunk_id
    /\ w.page_info.page_number = flat[a].page
    /\ chunk.content = flat[a].content

(* C10: the flat output has total_chunks entries, every flat entry         *)
(* corresponds to exactly one record of exactly one nested page wrapper    *)
(* (same chunk_id, page number and content), and every nested record to    *)
(* exactly one flat entry.                                                 *)
C10_FlatNestedConsistent ==
  pc = "assembled" =>
    /\ Len(flat) = nested.total_chunks
    /\ \A a \in 1..Len(flat) :
         Cardinality({kj \in NestedPositions : Corresponds(a, kj)}) = 1
    /\ \A kj \in NestedPositions :
         Cardinality({a \in 1..Len(flat) : Corresponds(a, kj)}) = 1

(* an assembled run with records on two pages and a rejected page          *)
C10_Witness ==
  /\ pc = "assembled"
  /\ Len(flat) >= 3
  /\ nested.total_chunks = Len(flat)
  /\ \E k \in 1..Len(nested.pages) :
       nested.pages[k].page_info.extraction_status = "validation_failed"
  /\ Cardinality({k \in 1..Len(nested.pages) : nested.pages[k].llm_chunks # <<>>}) >= 2


-----------------------------------------------------------------------------
(* Properties of the assembled output, under Spec.                         *)

(* the page numbers of the PageOutputs with a non-empty error list         *)
PagesWithErrors ==
  {outputs[k].page_number : k \in {j \in 1..Len(outputs) :
                                     outputs[j].validation_errors # <<>>}}

(* C11: in every page wrapper of the nested output needs_retry is true     *)
(* exactly when extraction_status is not success, and pages_needing_retry  *)
(* lists, once each, exactly the page numbers whose PageOutput has a       *)
(* non-empty error list.                                                   *)
C11_RetryIffNotSuccess ==
  pc = "assembled" =>
    LET pages_needing_retry == PagesNeedingRetry(nested.pages) IN
      /\ \A k \in 1..Len(nested.pages) :
           nested.pages[k].page_info.needs_retry
             <=> (nested.pages[k].page_info.extraction_status # "success")
      /\ {pages_needing_retry[k] : k \in 1..Len(pages_needing_retry)} = PagesWithErrors
      /\ Len(pages_needing_retry) = Cardinality(PagesWithErrors)

(* an assembled run with a rejected page, an accepted page and a page      *)
(* without records and without errors                                      *)
C11_Witness ==
  /\ pc = "assembled"
  /\ \E k \in 1..Len(nested.pages) :
       /\ nested.pages[k].page_info.needs_retry
       /\ nested.pages[k].page_info.extraction_status = "validation_failed"
  /\ \E k \in 1..Len(nested.pages) :
       /\ ~nested.pages[k].page_info.needs_retry
       /\ nested.pages[k].llm_chunks # <<>>
  /\ \E k \in 1..Len(outputs) :
       outputs[k].parsed_items = <<>> /\ outputs[k].validation_errors = <<>>
  /\ PagesNeedingRetry(nested.pages) # <<>>


-----------------------------------------------------------------------------
(* System metadata, under SpecPage.                                        *)

(* the top-level keys reserved for the system                              *)
SystemKeys == {"human_audit", "audit", "chunk_info"}

(* the reply with the system keys removed from every object element        *)
WithoutSystemKeys(raw_text) ==
  [raw_text EXCEPT !.items =
     [k \in 1..Len(raw_text.items) |->
        IF raw_text.items[k].kind # "object" THEN raw_text.items[k]
        ELSE ObjectElem([key \in (DOMAIN raw_text.items[k].fields) \ SystemKeys |->
                           raw_text.items[k].fields[key]])]]

(* the reply with the three system keys set, to a forged value, in every   *)
(* object element                                                          *)
WithForgedSystemKeys(raw_text) ==
  [raw_text EXCEPT !.items =
     [k \in 1..Len(raw_text.items) |->
        IF raw_text.items[k].kind # "object" THEN raw_text.items[k]
        ELSE ObjectElem([key \in (DOMAIN raw_text.items[k].fields) \cup SystemKeys |->
                           IF key \in SystemKeys THEN VObj("{'chunk_id': 'x_p001_1'}")
                           ELSE raw_text.items[k].fields[key]])]]

SameOutcome(raw_text, other) ==
  LET a == ProcessReply(SampleGuidelineId, pg_page, SampleExtractedBy, raw_text)
      b == ProcessReply(SampleGuidelineId, pg_page, SampleExtractedBy, other)
  IN  /\ a.raised = b.raised
      /\ a.output.parsed_items = b.output.parsed_items
      /\ a.output.validation_errors = b.output.validation_errors

(* C12: the outcome of a page (raised or not, records, errors) is the one  *)
(* of the reply without the keys human_audit, audit and chunk_info and the *)
(* one of the reply with those keys forged; and every accepted record has  *)
(* the chunk_info and human_audit the system assigns and a content body    *)
(* without those keys.                                                     *)
C12_ModelCannotSetSystemMetadata ==
  pg_pc \in {"returned", "raised"} =>
    /\ SameOutcome(pg_reply, WithoutSystemKeys(pg_reply))
    /\ SameOutcome(pg_reply, WithForgedSystemKeys(pg_reply))
    /\ pg_pc = "returned" =>
         /\ LET b == ProcessReply(SampleGuidelineId, pg_page, SampleExtractedBy,
                                  WithoutSystemKeys(pg_reply)) IN
              /\ pg_out.parsed_items = b.output.parsed_items
              /\ pg_out.validation_errors = b.output.validation_errors
         /\ \A k \in 1..Len(pg_out.parsed_items) :
              /\ pg_out.parsed_items[k].chunk_info
                   = [chunk_id |-> SampleGuidelineId \o "_p" \o Pad3(pg_page)
                                     \o "_" \o ToString(k)]
              /\ pg_out.parsed_items[k].human_audit.created_by = SampleExtractedBy
              /\ pg_out.parsed_items[k].human_audit.status = "draft"
              /\ (DOMAIN pg_out.parsed_items[k].content) \cap SystemKeys = {}

(* an accepted page whose reply set the three keys in one of its elements  *)
C12_Witness ==
  /\ pg_pc = "returned"
  /\ \E k \in 1..Len(pg_reply.items) :
       SystemKeys \subseteq DOMAIN pg_reply.items[k].fields
  /\ Len(pg_out.parsed_items) = 2
  /\ pg_out.validation_errors = <<>>


-----------------------------------------------------------------------------
(* The base prompt, under Spec.                                            *)

(* the file is missing, or holds nothing but whitespace                    *)
PromptMissingOrBlank(f) ==
  \/ ~f.is_file
  \/ \A k \in 1..Len(f.content) : f.content[k] \in {" ", "\n", "\t"}

(* C13: when the base prompt file is missing or empty after trimming, the  *)
(* run never gets beyond the call of process_pages, which fails: no page   *)
(* task is started (no transport call), no file is written and neither     *)
(* callback is invoked.                                                    *)
C13_PromptUnavailableBeforePageWork ==
  PromptMissingOrBlank(prompt_file) =>
    /\ pc \in {"start", "failed"}
    /\ \A p \in DOMAIN task : task[p] = "new"
    /\ files = {}
    /\ progress = <<>>
    /\ notified = <<>>
    /\ outputs = <<>>

(* process_pages has failed on a prompt file that holds only whitespace    *)
C13_Witness ==
  /\ pc = "failed"
  /\ prompt_file.is_file
  /\ prompt_file.content # <<>>
  /\ PromptMissingOrBlank(prompt_file)
  /\ \A p \in DOMAIN task : task[p] = "new"


-----------------------------------------------------------------------------
(* Empty pages, under Spec.                                                *)

(* C14 as stated: a page whose reply is an empty JSON array has a          *)
(* PageOutput with zero records and zero errors and is reported with       *)
(* extraction_status success and needs_retry false; and a PageOutput with  *)
(* zero records and zero errors comes from such a reply only, never from a *)
(* reply that failed to parse.                                             *)
C14_EmptyPageOnlyForEmptyArray ==
  /\ \A p \in DOMAIN task :
       task[p] = "done" =>
         /\ reply[p] = Array(<<>>) =>
              (returned[p].parsed_items = <<>> /\ returned[p].validation_errors = <<>>)
         /\ (returned[p].parsed_items = <<>> /\ returned[p].validation_errors = <<>>)
              => reply[p] = Array(<<>>)
  /\ pc = "assembled" =>
       \A k \in 1..Len(outputs) :
         outputs[k].raw_text = Array(<<>>) =>
           /\ nested.pages[k].page_info.extraction_status = "success"
           /\ ~nested.pages[k].page_info.needs_retry


-----------------------------------------------------------------------------
(* A clean run, under Spec.                                                *)

(* every page has its reply, an array of items that all validate           *)
AllRepliesValid ==
  \A p \in DOMAIN task :
    /\ task[p] = "done"
    /\ reply[p].shape = "array"
    /\ \A k \in 1..Len(reply[p].items) : ~FailsAlone(reply[p].items[k])

RECURSIVE ItemsUpTo(_)
ItemsUpTo(p) == IF p = 0 THEN 0 ELSE Len(reply[p].items) + ItemsUpTo(p - 1)

(* C15: when every page's reply is an array of valid items, the assembled  *)
(* run has one PageOutput per page, every page wrapper has                 *)
(* extraction_status success, total_pages is the number of pages,          *)
(* total_chunks the number of items over all replies, and                  *)
(* pages_needing_retry is empty.                                           *)
C15_CleanRun ==
  (pc = "assembled" /\ AllRepliesValid) =>
    /\ Len(outputs) = total
    /\ \A p \in DOMAIN task : Cardinality(PositionsOf(p)) = 1
    /\ \A k \in 1..Len(outputs) :
         Len(outputs[k].parsed_items) = Len(reply[outputs[k].page_number].items)
    /\ Len(nested.pages) = total
    /\ \A k \in 1..Len(nested.pages) :
         nested.pages[k].page_info.extraction_status = "success"
    /\ nested.total_pages = total
    /\ nested.total_chunks = ItemsUpTo(total)
    /\ Len(flat) = ItemsUpTo(total)
    /\ PagesNeedingRetry(nested.pages) = <<>>

(* the assembled run of three pages, each reply one valid generic item     *)
C15_Witness ==
  /\ pc = "assembled"
  /\ total = 3
  /\ \A p \in DOMAIN task : reply[p] = Array(<<GenericOk>>)
  /\ AllRepliesValid
  /\ Len(outputs) = 3
  /\ nested.total_chunks = 3


-----------------------------------------------------------------------------
(* The vision transport, under SpecClient.                                 *)

(* C16: a client whose API key is absent or the placeholder is never       *)
(* constructed and issues no upstream request; a call of extract with      *)
(* empty image bytes raises without an upstream request (the requests      *)
(* issued number the calls with a non-empty image); and a call whose       *)
(* upstream request fails ends with extract raising.                       *)
C16_TransportFailsWithoutRequest ==
  /\ cl_api_key \in {"", "<None>", "YOUR_API_KEY"} =>
       (cl_pc \in {"new", "rejected"} /\ cl_requests = 0 /\ cl_log = <<>>)
  /\ cl_pc = "rejected" => (cl_requests = 0 /\ cl_log = <<>>)
  /\ \A k \in 1..Len(cl_log) :
       /\ cl_log[k].image_empty =>
            (cl_log[k].upstream = "none" /\ cl_log[k].outcome = "raised")
       /\ cl_log[k].upstream = "failed" => cl_log[k].outcome = "raised"
  /\ cl_requests = Cardinality({k \in 1..Len(cl_log) : ~cl_log[k].image_empty})

(* a client that was called once with empty image bytes and once with an   *)
(* image for which the upstream request failed                             *)
C16_Witness ==
  /\ cl_pc = "ready"
  /\ Len(cl_log) = 2
  /\ cl_log[1].image_empty /\ cl_log[1].outcome = "raised"
  /\ cl_log[2].upstream = "failed" /\ cl_log[2].outcome = "raised"
  /\ cl_requests = 1


-----------------------------------------------------------------------------
(* The completion callback, under Spec.                                    *)

(* the calls of completion_callback made for page p                        *)
CallsFor(p) == {k \in 1..Len(notified) : notified[k] = p}

(* C17 as stated: the completion callback is invoked exactly once for      *)
(* every page whose task has ended, whether the page succeeded, failed     *)
(* validation or failed in transport, and only after the page's artifacts  *)
(* were written.                                                           *)
C17_CallbackOncePerPage ==
  /\ \A p \in DOMAIN task :
       task[p] \in {"done", "transport_failed"} => Cardinality(CallsFor(p)) = 1
  /\ \A p \in DOMAIN task : Cardinality(CallsFor(p)) <= 1
  /\ \A k \in 1..Len(notified) : RawPath(notified[k]) \in files


-----------------------------------------------------------------------------
(* Elements of any JSON shape, under SpecPage.                             *)

(* C18 as stated: no exception leaves the page task, and once validation   *)
(* has returned every element of the reply array that is not a valid       *)
(* record, whatever its JSON shape, has its entry in the page's error      *)
(* list.                                                                   *)
C18_InvalidElementsBecomeErrors ==
  /\ pg_pc # "raised"
  /\ pg_pc \in {"validated", "returned"} =>
       LET items == ParsedItems(pg_reply) IN
       Len(pg_errors) = Cardinality({k \in 1..Len(items) : FailsAlone(items[k])})


-----------------------------------------------------------------------------
(* Control flow of the handler, under SpecMain.                            *)

(* C19 as stated: the metadata bootstrap is invoked at most once, and a    *)
(* handler whose bootstrap reply validated against                         *)
(* GuidelineMetadataExtraction does not end in failure before the batch    *)
(* scheduler is started: it holds the guideline fields and goes on to the  *)
(* call of process_pages.                                                  *)
C19_ValidBootstrapStartsScheduler ==
  /\ m_requests <= 1
  /\ m_pc = "failed" => ~extract_metadata(m_reply).ok
  /\ m_pc = "metadata_ok" => extract_metadata(m_reply).ok


-----------------------------------------------------------------------------
(* Order of the PageOutputs, under Spec.                                   *)

(* C20: the PageOutputs the scheduler has collected are in ascending page  *)
(* order at every moment, the list it returns holds the pages in the order *)
(* they were given, and the nested pages list is in ascending page order,  *)
(* for every batch size and completion order.                              *)
C20_OutputsAscending ==
  /\ \A a, b \in 1..Len(outputs) :
       a < b => outputs[a].page_number < outputs[b].page_number
  /\ pc \in {"returned", "assembled"} =>
       [k \in 1..Len(outputs) |-> outputs[k].page_number] = pages
  /\ pc = "assembled" =>
       \A a, b \in 1..Len(nested.pages) :
         a < b => nested.pages[a].page_info.page_number
                    < nested.pages[b].page_info.page_number

(* an assembled run in which a task of a batch completed before the task   *)
(* of an earlier page of the same batch                                    *)
C20_Witness ==
  /\ pc = "assembled"
  /\ \E a, b \in 1..Len(notified) :
       /\ a < b
       /\ notified[a] > notified[b]
       /\ BatchNumber(notified[a]) = BatchNumber(notified[b])
  /\ Len(nested.pages) = total


-----------------------------------------------------------------------------
(* Fence stripping, under SpecFence.                                       *)

(* the text holds a closed fenced block: a marker and a later marker       *)
HasFencedBlock(t) ==
  /\ Contains(t, Fence)
  /\ Contains(SplitOnce(t, Fence)[2], Fence)

(* what lies between the first marker of the text and the next one         *)
FirstBlock(t) == SplitOnce(SplitOnce(t, Fence)[2], Fence)[1]

FenceLabels == {<<"j", "s", "o", "n">>, <<"p", "y">>}

(* the readings of a block's interior: a label that ends its line is not   *)
(* part of it; a label followed by anything else may or may not be         *)
Interiors(block) ==
  LET labelled == {l \in FenceLabels :
                     Len(l) <= Len(block) /\ SubSeq(block, 1, Len(l)) = l}
      rest(l)  == SubSeq(block, Len(l) + 1, Len(block))
  IN  IF \E l \in labelled : rest(l) # <<>> /\ Head(rest(l)) = "\n"
        THEN {Strip(rest(l)) : l \in labelled}
        ELSE {Strip(block)} \cup {Strip(rest(l)) : l \in labelled}

(* C21: strip_json_fence returns the interior of the first fenced block of *)
(* the text, without its label, when the text holds a fenced block, and    *)
(* the trimmed text when it holds no fence marker.                         *)
C21_FirstFencedBlock ==
  fn_pc = "stripped" =>
    /\ HasFencedBlock(fn_text) => fn_out \in Interiors(FirstBlock(fn_text))
    /\ ~Contains(fn_text, Fence) => fn_out = Strip(fn_text)



-----------------------------------------------------------------------------
(* Schema violations, under SpecPage.                                      *)

(* the sample elements of known content_type that break its schema: a      *)
(* required field missing, a numeric bound, a literal, a nested object     *)
SchemaViolators ==
  {GenericNoSummary, WarningScore11, WarningUrgencySoon, WarningBadThreshold}

(* the errors that name index and content_type of element e                *)
NamesIndexAndType(index, e) ==
  LET fields == sanitize_payload(e.fields)
      d      == Dispatch(ContentTypeOf(fields))
  IN  "Item " \o ToString(index) \o " (type: " \o e.fields["content_type"].s
        \o "): " \o ModelValidate(d.model, d.schema, fields).exc

(* C22: once validate_content has returned, every element of known         *)
(* content_type that violates its schema has exactly one error, which      *)
(* names its 0-based index and its content_type, and no record: the        *)
(* records are as many as the elements that neither violate a schema nor   *)
(* have an unknown content_type.                                           *)
C22_SchemaViolationIsOneError ==
  pg_pc \in {"validated", "returned"} =>
    LET items     == ParsedItems(pg_reply)
        violating == {k \in 1..Len(items) : items[k] \in SchemaViolators}
        unknown   == {k \in 1..Len(items) : UnknownType(items[k])}
    IN  /\ \A k \in violating :
             Cardinality({j \in 1..Len(pg_errors) :
                            pg_errors[j] = NamesIndexAndType(k - 1, items[k])}) = 1
        /\ Len(pg_errors) = Cardinality(violating) + Cardinality(unknown)
        /\ Len(pg_valid) = Len(items) - Cardinality(violating) - Cardinality(unknown)

(* validate_content returned for a valid element followed by one whose     *)
(* priority_score is 11                                                    *)
C22_Witness ==
  /\ pg_pc = "validated"
  /\ pg_reply.items = <<WarningOk, WarningScore11>>
  /\ Len(pg_valid) = 1
  /\ pg_errors = <<NamesIndexAndType(1, WarningScore11)>>



-----------------------------------------------------------------------------
(* Per-page files, under Spec.                                             *)

(* the file names keyed by page number p                                   *)
NamesOf(p) == {RawPath(p), ErrorsPath(p), PageJsonPath(p)}

(* the task of page p got a reply from the transport and has ended         *)
EndedWithReply(p) == task[p] \in {"done", "crashed"}

(* the per-page files in output_dir are those of the pages whose task      *)
(* wrote, and the name spaces of two pages are disjoint                    *)
FilesKeyedByPage ==
  /\ files \ {FlatPath, NestedPath}
       \subseteq UNION {NamesOf(p) : p \in {q \in DOMAIN task : task[q] = "done"}}
  /\ \A p, q \in 1..MaxPages : p # q => NamesOf(p) \cap NamesOf(q) = {}
  /\ \A p, q \in SamplePageNumbers : p # q => NamesOf(p) \cap NamesOf(q) = {}

(* C23: the files of a run are keyed by page number, no two pages share a  *)
(* name, and every page task that got a reply has written the raw reply    *)
(* and exactly one of the page JSON and the errors text.                   *)
C23_PageFilesOwnedAndComplete ==
  /\ FilesKeyedByPage
  /\ \A p \in DOMAIN task :
       EndedWithReply(p) =>
         /\ RawPath(p) \in files
         /\ (PageJsonPath(p) \in files) # (ErrorsPath(p) \in files)



-----------------------------------------------------------------------------
(* Transport calls per page, under Spec.                                   *)

(* process_pages got beyond load_prompt and the run has ended              *)
PageWorkEnded == RunEnded /\ ~load_prompt(prompt_file).raised

(* C24: the transport is called at most once for a page, a page that ended *)
(* with validation errors has had one call, and when the run has ended     *)
(* without a failed transport call every page has had exactly one call.    *)
C24_NoRetry ==
  /\ \A p \in DOMAIN calls : calls[p] <= 1
  /\ \A p \in DOMAIN task :
       (task[p] = "done" /\ returned[p].validation_errors # <<>>) => calls[p] = 1
  /\ (PageWorkEnded /\ ~SomeTransportFailure) => \A p \in DOMAIN calls : calls[p] = 1



-----------------------------------------------------------------------------
(* Application order of the encoding fixes, under SpecEnc.                 *)

(* ENCODING_FIXES with the entries that can match a text of SpecEnc in     *)
(* every order (the other entries keep their place), and the whole table   *)
(* reversed                                                                *)
FixOrders ==
  LET perms == {f \in [EncEntries -> EncEntries] :
                  \A a, b \in EncEntries : f[a] = f[b] => a = b}
  IN  {[k \in 1..Len(ENCODING_FIXES) |->
          IF k \in EncEntries THEN ENCODING_FIXES[f[k]] ELSE ENCODING_FIXES[k]] :
       f \in perms}
      \cup {[k \in 1..Len(ENCODING_FIXES) |->
               ENCODING_FIXES[Len(ENCODING_FIXES) + 1 - k]]}

(* C25: applying the substitutions of ENCODING_FIXES in another order      *)
(* gives the text fix_encoding gives.                                      *)
C25_OrderIndependent ==
  enc_pc = "fixed_once" =>
    \A fixes \in FixOrders : ApplyFixes(text, fixes, 1) = once

(* a text with two different corrupted patterns, both repaired             *)
C25_Witness ==
  /\ enc_pc = "fixed_once"
  /\ text = <<195, 169, 194, 176>>
  /\ once = <<233, 176>>
  /\ Cardinality(FixOrders) > 20



-----------------------------------------------------------------------------
(* The guideline id, under SpecMain.                                       *)

(* the bootstrap reply validated: main holds auto_metadata                 *)
BootstrapValidated ==
  m_pc \in {"failed", "metadata_ok"} /\ extract_metadata(m_reply).ok

(* the identifier the bootstrap extracted, empty when there is none        *)
ExtractedId == extract_metadata(m_reply).instance.fields["guideline_id"].s

(* the ids of the sample names: lowercase, "_" for every space, at most 50 *)
(* characters                                                              *)
IdOfName(name) ==
  CASE name = "TB Care" -> "tb_care"
    [] name = "HIV"     -> "hiv"
    [] OTHER            -> "tb_care_tb_care_tb_care_tb_care_tb_care_tb_care_tb"

(* C26: when the bootstrap extracted no identifier, the guideline id main  *)
(* holds is the one derived from the guideline name, which is a function   *)
(* of the name alone and has at most 50 characters.                        *)
C26_IdDerivedFromName ==
  (BootstrapValidated /\ ExtractedId = "") =>
    /\ m_info.guideline_id
         = IdOfName(extract_metadata(m_reply).instance.fields["guideline_name"].s)
    /\ Len(m_info.guideline_id) <= 50

(* a name of more than 50 characters, with capitals and spaces, and no     *)
(* extracted identifier                                                    *)
C26_Witness ==
  /\ BootstrapValidated /\ ExtractedId = ""
  /\ m_reply = MetaLongName
  /\ Len(m_reply.fields["guideline_name"].s) = 56
  /\ Len(m_info.guideline_id) = 50

(* C27: when the bootstrap extracted a non-empty identifier, it is the     *)
(* guideline id main holds for the run.                                    *)
C27_ExtractedIdIsUsed ==
  (BootstrapValidated /\ ExtractedId # "") => m_info.guideline_id = ExtractedId



-----------------------------------------------------------------------------
(* The result of process_pages, under SpecAnyBatch.                        *)

-----------------------------------------------------------------------------
(* validate_content as a partition, under SpecPage.                        *)

(* the sample elements validate_content has to turn into an error          *)
Rejected(e) == e \in SchemaViolators \/ UnknownType(e)

(* the j-th smallest member of a set of positions                          *)
NthOf(S, j) == CHOOSE k \in S : Cardinality({x \in S : x <= k}) = j

(* the error of the element at position k of items                         *)
ErrorFor(items, k) ==
  IF UnknownType(items[k]) THEN UnknownTypeMessage(k - 1, NamedValue(items[k]))
  ELSE NamesIndexAndType(k - 1, items[k])

(* C29: for a list of object payloads validate_content returns one record  *)
(* or one error per payload, so records and errors together are as many as *)
(* the payloads, and both lists keep the order of the payloads: the j-th    *)
(* record comes from the j-th accepted payload, the j-th error from the    *)
(* j-th rejected one.                                                      *)
C29_Partition ==
  pg_pc \in {"validated", "returned"} =>
    LET items == ParsedItems(pg_reply)
        bad   == {k \in 1..Len(items) : Rejected(items[k])}
        good  == (1..Len(items)) \ bad
    IN  /\ Len(pg_valid) + Len(pg_errors) = Len(items)
        /\ Len(pg_valid) = Cardinality(good)
        /\ Len(pg_errors) = Cardinality(bad)
        /\ \A j \in 1..Len(pg_valid) :
             /\ pg_valid[j].fields["topic"] = items[NthOf(good, j)].fields["topic"]
             /\ pg_valid[j].fields["content_type"]
                  = items[NthOf(good, j)].fields["content_type"]
        /\ \A j \in 1..Len(pg_errors) : pg_errors[j] = ErrorFor(items, NthOf(bad, j))

(* two accepted payloads of different topics, in the order given           *)
C29_Witness ==
  /\ pg_pc = "validated"
  /\ pg_reply.items = <<GenericWithAudit, GenericOk>>
  /\ Len(pg_valid) = 2 /\ pg_errors = <<>>
  /\ pg_valid[1].fields["topic"] = VStr("HIV")
  /\ pg_valid[2].fields["topic"] = VStr("TB")



-----------------------------------------------------------------------------
(* Dispatch on the discriminator, under SpecPage.                          *)

(* the variant each discriminator names                                    *)
VariantOf(content_type) ==
  CASE content_type = "clinical_pathway"    -> "ClinicalPathway"
    [] content_type = "reference_table"     -> "ReferenceTable"
    [] content_type = "drug_monograph"      -> "DrugMonograph"
    [] content_type = "warning_signs"       -> "WarningSigns"
    [] content_type = "diagnostic_criteria" -> "DiagnosticCriteria"
    [] content_type = "patient_education"   -> "PatientEducation"
    [] content_type = "generic"             -> "GenericContent"
    [] OTHER                                -> "none"

(* C30: every record validate_content accepted is an instance of the       *)
(* variant that the content_type of its input element names, carries that  *)
(* content_type, and the content_type is one of the seven discriminators.  *)
C30_RecordsMatchDiscriminator ==
  pg_pc \in {"validated", "returned"} =>
    LET items == ParsedItems(pg_reply)
        good  == {k \in 1..Len(items) : ~Rejected(items[k])}
    IN  /\ Len(pg_valid) <= Cardinality(good)
        /\ \A j \in 1..Len(pg_valid) :
             LET e == items[NthOf(good, j)] IN
               /\ pg_valid[j].fields["content_type"].t = "str"
               /\ pg_valid[j].fields["content_type"].s \in KnownContentTypes
               /\ pg_valid[j].fields["content_type"].s = e.fields["content_type"].s
               /\ pg_valid[j].model = VariantOf(e.fields["content_type"].s)

(* records of two different variants accepted from one array               *)
C30_Witness ==
  /\ pg_pc = "validated"
  /\ pg_reply.items = <<ReferenceTableOk, WarningOk>>
  /\ Len(pg_valid) = 2
  /\ pg_valid[1].model = "ReferenceTable"
  /\ pg_valid[2].model = "WarningSigns"

=============================================================================
